---- MODULE Spec2Model ----
(***************************************************************************)
(* Telemetry decoding and sleep analysis of the sleep tracker:             *)
(*   WearableService      (BLE phase records -> SleepData, quality score,  *)
(*                         heart-rate and motion samples, disconnect)      *)
(*   SamsungHealthService (vendor items -> SleepData, quality score,       *)
(*                         authorization of the reads)                     *)
(*   DataAnalysis / DataComparison (phase distribution percentages)        *)
(*   DataVisualization    (weekday/weekend hours, efficiency, awakenings)  *)
(*   CloudSyncService, DataSync, DeviceConnection (uploads, isSyncing)     *)
(*   AuthContext          (users, currentUser)                             *)
(*                                                                         *)
(* JavaScript numbers are modelled as exact rationals [nan, num, den] with *)
(* den > 0 in lowest terms, plus NaN; x/0 with x # 0 (Infinity) is kept as *)
(* den = 0.  Strings are sequences of one-character strings, so that       *)
(* toLowerCase is a computed conversion.  A DataView is a sequence of      *)
(* bytes (0..255).  Where the rounding of double arithmetic decides a      *)
(* result (efficiency, hours to two decimals), the operations are done on  *)
(* 53-bit significands.                                                    *)
(***************************************************************************)
EXTENDS Integers, Sequences, FiniteSets, TLC

\* The fields of the records below; every record lists its fields in this order.
RecordFields ==
    [nan |-> {}, num |-> {}, den |-> {},
     threw |-> {}, session |-> {},
     type |-> {}, code |-> {}, start |-> {},
     date |-> {}, startDate |-> {}, endDate |-> {}, startTime |-> {},
     duration |-> {}, quality |-> {}, timeInBed |-> {}, awakenings |-> {},
     phases |-> {}, heartRate |-> {}, movement |-> {},
     kind |-> {}, list |-> {}, deep |-> {}, rem |-> {}, light |-> {}, awake |-> {},
     deepSleep |-> {}, remSleep |-> {}, lightSleep |-> {},
     sleepData |-> {}, period |-> {}, today |-> {}, days |-> {},
     fn |-> {}, arg |-> {}, ret |-> {},
     timestamp |-> {}, value |-> {}, confidence |-> {}, steps |-> {}, distance |-> {},
     source |-> {}, acceleration |-> {}, x |-> {}, y |-> {}, z |-> {}, magnitude |-> {},
     radicand |-> {}, sign |-> {}, bits |-> {}, exp |-> {},
     label |-> {}, hours |-> {}, weekdayVsWeekendData |-> {}, efficiencyPct |-> {},
     timesWokenData |-> {}, inBed |-> {}, asleep |-> {},
     motion |-> {}, shared |-> {}, seen |-> {},
     success |-> {}, message |-> {}, isSyncing |-> {}, error |-> {}, running |-> {},
     responses |-> {}, syncStatus |-> {}, isSamsungHealthInitialized |-> {},
     isSamsungHealthAuthorized |-> {}, empty |-> {}, effects |-> {},
     id |-> {}, email |-> {}, role |-> {}, parentId |-> {}, children |-> {}]

VARIABLES
    connected,      \* WearableService: this.device?.gatt?.connected
    sleepValue,     \* value of the sleep characteristic read by the handler
    sleepData,      \* WearableService.sleepData
    threw,          \* the last handler or operation ended in an exception it did not catch
    call,           \* last call of a pure function: [fn, arg, ret]
    isInitialized,  \* SamsungHealthService.isInitialized
    isAuthorized,   \* SamsungHealthService.isAuthorized
    heartRateData,  \* WearableService.heartRateData
    motionData,     \* WearableService.motionData
    consumer,       \* the array a caller of getSleepData() holds: [shared, list, seen]
    notified,       \* payloads the heart-rate and motion listeners got since connectDevice
    released,       \* disconnect() has returned and connectDevice was not called since
    permissionResult,   \* what the last requestPermission / checkPermissions resolved to
    bridgeReads,    \* data reads window.SamsungHealthBridge has received
    fetchRefused,   \* the last fetch threw 'Not authorized ...'
    dataSync,       \* DataSync: its state and where handleSync stands
    deviceConnection,   \* DeviceConnection: its state and where its sync handlers stand
    users,          \* AuthContext: users
    currentUser     \* AuthContext: currentUser

\* WearableService's sample lists and the reference handed out by getSleepData
deviceVars == <<heartRateData, motionData, consumer>>

\* what the device and the caller of the service have done
observerVars == <<notified, released>>

\* the calls of SamsungHealthService as its caller and the bridge see them
bridgeVars == <<permissionResult, bridgeReads, fetchRefused>>

\* the state of the components DataSync and DeviceConnection
componentVars == <<dataSync, deviceConnection>>

\* the state of AuthContext
accountVars == <<users, currentUser>>

vars ==
    <<connected, sleepValue, sleepData, threw, call, isInitialized, isAuthorized,
      deviceVars, observerVars, bridgeVars, componentVars, accountVars>>

----------------------------------------------------------------------------
(* Bounds *)

MaxRecords == 2     \* phase records per BLE payload
MaxSessions == 2    \* sessions kept in WearableService.sleepData
MaxClock == 1       \* readings of the wall clock (new Date()) are 0..MaxClock
MaxPhases == 3      \* phases in the list handed to a quality computation
MaxAnalysed == 2    \* sessions handed to DataAnalysis / DataComparison
MaxAnalysedPhases == 2  \* phases of each analysed session
MaxBatch == 2       \* records in one response of the Samsung Health bridge
MaxVisualised == 2  \* sessions handed to DataVisualization
MaxUsers == 2       \* users kept by AuthContext
MaxSamples == 2     \* notifications of the heart-rate and of the motion characteristic
                    \* between two calls of connectDevice

----------------------------------------------------------------------------
(* JavaScript numbers *)

Abs(x) == IF x < 0 THEN -x ELSE x

RECURSIVE GCD(_, _)
GCD(a, b) == IF b = 0 THEN a ELSE GCD(b, a % b)

NaN == [nan |-> TRUE, num |-> 0, den |-> 1]

\* the rational n/d (d # 0) in lowest terms with a positive denominator
Rat(n, d) ==
    LET g == GCD(Abs(n), Abs(d))
        s == IF d < 0 THEN -1 ELSE 1
    IN  [nan |-> FALSE, num |-> s * (n \div g), den |-> s * (d \div g)]

Num(n) == [nan |-> FALSE, num |-> n, den |-> 1]

IsInteger(x) == ~x.nan /\ x.den = 1

\* a / b
JsDiv(a, b) ==
    IF a.nan \/ b.nan THEN NaN
    ELSE IF b.num = 0 /\ b.den # 0
         THEN IF a.num = 0 THEN NaN
              ELSE [nan |-> FALSE, num |-> IF a.num < 0 THEN -1 ELSE 1, den |-> 0]
         ELSE IF a.den = 0 \/ b.den = 0 THEN NaN
         ELSE Rat(a.num * b.den, a.den * b.num)

\* a * b
JsMul(a, b) ==
    IF a.nan \/ b.nan THEN NaN
    ELSE IF a.den = 0 \/ b.den = 0
         THEN IF a.num = 0 \/ b.num = 0 THEN NaN
              ELSE [nan |-> FALSE,
                    num |-> IF (a.num < 0) = (b.num < 0) THEN 1 ELSE -1, den |-> 0]
         ELSE Rat(a.num * b.num, a.den * b.den)

\* a + b
JsAdd(a, b) ==
    IF a.nan \/ b.nan THEN NaN
    ELSE IF a.den = 0 /\ b.den = 0
         THEN IF a.num = b.num THEN a ELSE NaN
         ELSE IF a.den = 0 THEN a
         ELSE IF b.den = 0 THEN b
         ELSE Rat(a.num * b.den + b.num * a.den, a.den * b.den)

\* a - b
JsSub(a, b) == JsAdd(a, JsMul(Num(-1), b))

\* a < b on numbers that are not NaN
JsLess(a, b) == a.num * b.den < b.num * a.den

\* Math.min(a, b), Math.max(a, b): NaN if either argument is NaN
MathMin(a, b) == IF a.nan \/ b.nan THEN NaN ELSE IF JsLess(b, a) THEN b ELSE a
MathMax(a, b) == IF a.nan \/ b.nan THEN NaN ELSE IF JsLess(a, b) THEN b ELSE a

\* Math.round(x): floor(x + 1/2); NaN and the infinities are returned as they are
MathRound(x) ==
    IF x.nan \/ x.den = 0 THEN x
    ELSE Num((2 * x.num + x.den) \div (2 * x.den))

\* a === b (NaN is not equal to itself)
JsStrictEq(a, b) == ~a.nan /\ ~b.nan /\ a = b

\* x || d for a number x that may be undefined (Undefined), 0 or NaN
Undefined == [nan |-> TRUE, num |-> -1, den |-> 1]
OrDefault(x, d) == IF x = Undefined \/ x.nan \/ x.num = 0 THEN d ELSE x

\* x ?? d
Nullish(x, d) == IF x = Undefined THEN d ELSE x

----------------------------------------------------------------------------
(* IEEE 754 doubles: a positive number is bits * 2^exp, bits its 53-bit
   significand (most significant bit first, never 0) *)

SignificandBits == 53

\* n / d = (num / den) * 2^exp with 1 <= num / den < 2
RECURSIVE Normalise(_, _, _)
Normalise(n, d, e) ==
    IF n < d THEN Normalise(2 * n, d, e - 1)
    ELSE IF n >= 2 * d THEN Normalise(n, 2 * d, e + 1)
    ELSE [num |-> n, den |-> d, exp |-> e]

\* digits handled in one step of the long arithmetic below
ChunkDigits == 16

Smaller(a, b) == IF a < b THEN a ELSE b

\* n written with exactly w binary digits
FixedBits(n, w) == [i \in 1..w |-> (n \div (2 ^ (w - i))) % 2]

\* the first k binary digits of n / d (n < 2 d), by long division
RECURSIVE QuotientBits(_, _, _)
QuotientBits(n, d, k) ==
    IF k = 0 THEN <<>>
    ELSE LET w == Smaller(k, ChunkDigits)
             scaled == n * (2 ^ (w - 1))
         IN  FixedBits(scaled \div d, w) \o QuotientBits(2 * (scaled % d), d, k - w)

\* what long division has left after k digits
RECURSIVE RemainderAfter(_, _, _)
RemainderAfter(n, d, k) ==
    IF k = 0 THEN n
    ELSE LET w == Smaller(k, ChunkDigits)
         IN  RemainderAfter(2 * ((n * (2 ^ (w - 1))) % d), d, k - w)

\* bits + 1: one digit longer when every digit is 1
AddOne(bits) ==
    IF \A i \in DOMAIN bits : bits[i] = 1
    THEN <<1>> \o [i \in DOMAIN bits |-> 0]
    ELSE LET z == CHOOSE i \in DOMAIN bits :
                      bits[i] = 0 /\ \A j \in DOMAIN bits : j > i => bits[j] = 1
         IN  [i \in DOMAIN bits |-> IF i < z THEN bits[i] ELSE IF i = z THEN 1 ELSE 0]

RECURSIVE ToBits(_)
ToBits(n) == IF n = 0 THEN <<>> ELSE ToBits(n \div 2) \o <<n % 2>>

\* the integer written by the digits from..to of bits
RECURSIVE BitsToInt(_, _, _)
BitsToInt(bits, from, to) ==
    IF to < from THEN 0 ELSE 2 * BitsToInt(bits, from, to - 1) + bits[to]

\* round to nearest, ties to even: digits (at least 53, the first one 1) of a
\* number digits * 2^e, inexact when sticky, to a double
RoundToDouble(digits, sticky, e) ==
    LET kept == SubSeq(digits, 1, SignificandBits)
        guard == IF Len(digits) > SignificandBits THEN digits[SignificandBits + 1] ELSE 0
        rest == sticky \/ \E i \in (SignificandBits + 2)..Len(digits) : digits[i] = 1
        up == guard = 1 /\ (rest \/ kept[SignificandBits] = 1)
        raised == AddOne(kept)
        scale == e + Len(digits) - SignificandBits
    IN  IF ~up THEN [bits |-> kept, exp |-> scale]
        ELSE IF Len(raised) > SignificandBits
             THEN [bits |-> SubSeq(raised, 1, SignificandBits), exp |-> scale + 1]
             ELSE [bits |-> raised, exp |-> scale]

\* a / b in double arithmetic, for integers a > 0 and b > 0
DoubleDiv(a, b) ==
    LET q == Normalise(a, b, 0)
    IN  RoundToDouble(QuotientBits(q.num, q.den, SignificandBits + 1),
                      RemainderAfter(q.num, q.den, SignificandBits + 1) > 0,
                      q.exp - SignificandBits)

\* the digits of (the first i digits of bits) * k + carry, for k > 0
RECURSIVE TimesBits(_, _, _, _)
TimesBits(bits, i, k, carry) ==
    IF i = 0 THEN ToBits(carry)
    ELSE LET w == Smaller(i, ChunkDigits)
             t == BitsToInt(bits, i - w + 1, i) * k + carry
         IN  TimesBits(bits, i - w, k, t \div (2 ^ w)) \o FixedBits(t % (2 ^ w), w)

\* x * k in double arithmetic, for a double x > 0 and an integer k > 0
DoubleTimes(x, k) ==
    RoundToDouble(TimesBits(x.bits, SignificandBits, k, 0), FALSE, x.exp)

\* the digits of (r followed by the digits from.. of bits) divided by b > r
RECURSIVE DivBits(_, _, _, _)
DivBits(bits, from, b, r) ==
    IF from > Len(bits) THEN <<>>
    ELSE LET w == Smaller(Len(bits) - from + 1, ChunkDigits)
             t == r * (2 ^ w) + BitsToInt(bits, from, from + w - 1)
         IN  FixedBits(t \div b, w) \o DivBits(bits, from + w, b, t % b)

\* what that division leaves
RECURSIVE ModBits(_, _, _, _)
ModBits(bits, from, b, r) ==
    IF from > Len(bits) THEN r
    ELSE LET w == Smaller(Len(bits) - from + 1, ChunkDigits)
         IN  ModBits(bits, from + w, b,
                     (r * (2 ^ w) + BitsToInt(bits, from, from + w - 1)) % b)

\* digits without its leading zeros
StripZeros(digits) ==
    LET first == CHOOSE i \in DOMAIN digits :
                     digits[i] = 1 /\ \A j \in 1..(i - 1) : digits[j] = 0
    IN  SubSeq(digits, first, Len(digits))

\* x / b in double arithmetic, for a double x > 0 and an integer b > 0
DoubleOver(x, b) ==
    LET padded == x.bits \o [i \in 1..(SignificandBits + 1) |-> 0]
    IN  RoundToDouble(StripZeros(DivBits(padded, 1, b, 0)),
                      ModBits(padded, 1, b, 0) > 0,
                      x.exp - (SignificandBits + 1))

\* floor(x + 1/2) of the number digits * 2^e, 0 < x < 2^31
RoundBits(digits, e) ==
    LET whole == Len(digits) + e     \* digits before the binary point
    IN  IF whole < 0 THEN 0
        ELSE IF whole >= Len(digits)
             THEN BitsToInt(digits, 1, Len(digits)) * (2 ^ e)
        ELSE BitsToInt(digits, 1, whole) + digits[whole + 1]

\* Math.round(x) of a double 0 < x < 2^31: floor(x + 1/2)
DoubleRound(x) == RoundBits(x.bits, x.exp)

\* Number(x.toFixed(2)) of a double 0 < x < 2^24: the n / 100 nearest to the
\* exact value of x, the larger n on a tie
DoubleToFixed2(x) == Rat(RoundBits(TimesBits(x.bits, SignificandBits, 100, 0), x.exp), 100)

----------------------------------------------------------------------------
(* Sequences *)

RECURSIVE SumDurations(_)
\* phases.reduce((acc, phase) => acc + phase.duration, 0)
SumDurations(phases) ==
    IF phases = <<>> THEN 0
    ELSE Head(phases).duration + SumDurations(Tail(phases))

\* phases.filter(phase => phase.type === t)
FilterType(phases, t) == SelectSeq(phases, LAMBDA p : p.type = t)

RECURSIVE Concat(_)
Concat(ss) == IF ss = <<>> THEN <<>> ELSE Head(ss) \o Concat(Tail(ss))

SeqsUpTo(S, n) == UNION { [1..k -> S] : k \in 0..n }

----------------------------------------------------------------------------
(* DataView: a sequence of bytes, offsets counted from 0 *)

RecordSize == 9     \* offset += 9: 1-byte code, 4-byte start, 4-byte duration

\* value.getUint8(offset) is a RangeError unless offset < byteLength
CanGetUint8(value, offset) == offset + 1 <= Len(value)

GetUint8(value, offset) == value[offset + 1]

\* value.getUint32(offset) is a RangeError unless offset + 4 <= byteLength
CanGetUint32(value, offset) == offset + 4 <= Len(value)

\* value.getUint16(offset): the first two bytes only
GetUint32_AsUint16(value, offset) ==
    value[offset + 1] * 256 + value[offset + 2]

\* value.getUint32(offset): big-endian, the DataView default
GetUint32(value, offset) ==
    ((value[offset + 1] * 256 + value[offset + 2]) * 256 + value[offset + 3]) * 256
        + value[offset + 4]

----------------------------------------------------------------------------
(* WearableService *)

\* mapPhaseType with the default branch returning another type
Wearable_mapPhaseType_DefaultDeep(type) ==
    CASE type = 0 -> "Deep"
      [] type = 1 -> "REM"
      [] type = 2 \/ type = 3 -> "Light"
      [] OTHER -> "Deep"

\* mapPhaseType(type: number)
Wearable_mapPhaseType(type) ==
    CASE type = 0 -> "Deep"
      [] type = 1 -> "REM"
      [] type = 2 \/ type = 3 -> "Light"
      [] OTHER -> "Light"

\* calculateSleepQuality(phases: SleepPhase[])
Wearable_calculateSleepQuality(phases) ==
    LET totalDuration == Num(SumDurations(phases))
        deepSleepDuration == Num(SumDurations(FilterType(phases, "Deep")))
        remSleepDuration == Num(SumDurations(FilterType(phases, "REM")))
        deepSleepPercentage == JsMul(JsDiv(deepSleepDuration, totalDuration), Num(100))
        remSleepPercentage == JsMul(JsDiv(remSleepDuration, totalDuration), Num(100))
        deepSleepScore ==
            MathMax(Num(0), MathMin(Num(100),
                JsMul(JsDiv(deepSleepPercentage, Num(25)), Num(100))))
        remSleepScore ==
            MathMax(Num(0), MathMin(Num(100),
                JsMul(JsDiv(remSleepPercentage, Num(25)), Num(100))))
    IN  JsDiv(JsAdd(deepSleepScore, remSleepScore), Num(2))

RECURSIVE WalkRecords_DropPartial(_, _, _)
\* the record walk stopping before a record that is not whole
WalkRecords_DropPartial(value, offset, phases) ==
    IF ~(offset + RecordSize <= Len(value)) THEN [threw |-> FALSE, phases |-> phases]
    ELSE WalkRecords_DropPartial(value, offset + RecordSize,
             Append(phases,
                    [type |-> Wearable_mapPhaseType(GetUint8(value, offset)),
                     startTime |-> GetUint32(value, offset + 1),
                     duration |-> GetUint32(value, offset + 5)]))

RECURSIVE WalkRecords(_, _, _)
\* the while loop of processSleepData; threw: a DataView read was out of bounds
WalkRecords(value, offset, phases) ==
    IF ~(offset < Len(value)) THEN [threw |-> FALSE, phases |-> phases]
    ELSE IF ~CanGetUint8(value, offset)
            \/ ~CanGetUint32(value, offset + 1)
            \/ ~CanGetUint32(value, offset + 5)
         THEN [threw |-> TRUE, phases |-> <<>>]
         ELSE WalkRecords(value, offset + RecordSize,
                  Append(phases,
                         [type |-> Wearable_mapPhaseType(GetUint8(value, offset)),
                          startTime |-> GetUint32(value, offset + 1),
                          duration |-> GetUint32(value, offset + 5)]))

NoSession ==
    [date |-> 0, duration |-> 0, quality |-> NaN, phases |-> <<>>,
     heartRate |-> <<>>, movement |-> <<>>]

\* processSleepData(value: DataView) at wall-clock time now
processSleepData(value, now) ==
    LET walk == WalkRecords(value, 0, <<>>)
    IN  IF walk.threw THEN [threw |-> TRUE, session |-> NoSession]
        ELSE [threw |-> FALSE,
              session |-> [date |-> now,
                           duration |-> SumDurations(walk.phases),
                           quality |-> Wearable_calculateSleepQuality(walk.phases),
                           phases |-> walk.phases,
                           heartRate |-> <<>>,
                           movement |-> <<>>]]

\* no array was handed out yet
NoList == [list |-> <<>>, shared |-> FALSE, seen |-> <<>>]

NoneNotified == [heartRate |-> <<>>, motion |-> <<>>]

\* handleSleepData: the listener of the sleep characteristic
handleSleepData(value, now) ==
    /\ connected
    /\ Len(sleepData) < MaxSessions
    /\ sleepValue' = value
    /\ LET sleep == processSleepData(value, now)
       IN  IF sleep.threw
           THEN /\ threw' = TRUE
                /\ UNCHANGED sleepData
           ELSE /\ threw' = FALSE
                /\ sleepData' = Append(sleepData, sleep.session)
    /\ consumer' = IF consumer.shared THEN [consumer EXCEPT !.list = sleepData'] ELSE consumer
    /\ UNCHANGED <<connected, call, isInitialized, isAuthorized, heartRateData, motionData,
                   observerVars, bridgeVars,
                   componentVars, accountVars>>

\* connectDevice(device), every await succeeding: the listeners are attached
connectDevice ==
    /\ ~connected
    /\ connected' = TRUE
    /\ notified' = NoneNotified
    /\ released' = FALSE
    /\ UNCHANGED <<sleepValue, sleepData, threw, call, isInitialized, isAuthorized, deviceVars,
                   bridgeVars,
                   componentVars, accountVars>>

\* disconnect(): the three lists are replaced by new empty arrays, so an array
\* handed out before is no longer the service's
disconnect ==
    /\ IF connected
       THEN /\ connected' = FALSE
            /\ sleepData' = <<>>
            /\ heartRateData' = <<>>
            /\ motionData' = <<>>
            /\ consumer' = [consumer EXCEPT !.shared = FALSE]
       ELSE UNCHANGED <<connected, sleepData, deviceVars>>
    /\ released' = TRUE
    /\ UNCHANGED <<sleepValue, threw, call, isInitialized, isAuthorized, notified, bridgeVars,
                   componentVars, accountVars>>

\* handleHeartRateData: the listener of the heart-rate characteristic;
\* processHeartRateData reads value.getUint8(0), a RangeError on an empty value
handleHeartRateData(value) ==
    /\ connected
    /\ Len(notified.heartRate) < MaxSamples /\ Len(heartRateData) < MaxSamples
    /\ notified' = [notified EXCEPT !.heartRate = Append(@, value)]
    /\ IF CanGetUint8(value, 0)
       THEN /\ threw' = FALSE
            /\ heartRateData' = Append(heartRateData, GetUint8(value, 0))
       ELSE /\ threw' = TRUE
            /\ UNCHANGED heartRateData
    /\ UNCHANGED <<connected, sleepValue, sleepData, call, isInitialized, isAuthorized,
                   motionData, consumer, released, bridgeVars,
                   componentVars, accountVars>>

\* variant: the motion listener stores its sample in the heart-rate list
handleMotionData_IntoHeartRate(value) ==
    /\ connected
    /\ Len(notified.motion) < MaxSamples /\ Len(heartRateData) < MaxSamples
    /\ notified' = [notified EXCEPT !.motion = Append(@, value)]
    /\ IF CanGetUint8(value, 0)
       THEN /\ threw' = FALSE
            /\ heartRateData' = Append(heartRateData, GetUint8(value, 0))
       ELSE /\ threw' = TRUE
            /\ UNCHANGED heartRateData
    /\ UNCHANGED <<connected, sleepValue, sleepData, call, isInitialized, isAuthorized,
                   motionData, consumer, released, bridgeVars,
                   componentVars, accountVars>>

\* handleMotionData: the listener of the motion characteristic
handleMotionData(value) ==
    /\ connected
    /\ Len(notified.motion) < MaxSamples /\ Len(motionData) < MaxSamples
    /\ notified' = [notified EXCEPT !.motion = Append(@, value)]
    /\ IF CanGetUint8(value, 0)
       THEN /\ threw' = FALSE
            /\ motionData' = Append(motionData, GetUint8(value, 0))
       ELSE /\ threw' = TRUE
            /\ UNCHANGED motionData
    /\ UNCHANGED <<connected, sleepValue, sleepData, call, isInitialized, isAuthorized,
                   heartRateData, consumer, released, bridgeVars,
                   componentVars, accountVars>>

\* getSleepData(): returns this.sleepData, the array the handler pushes to
getSleepData ==
    /\ consumer' = [list |-> sleepData, shared |-> TRUE, seen |-> sleepData]
    /\ UNCHANGED <<connected, sleepValue, sleepData, threw, call, isInitialized,
                   isAuthorized, heartRateData, motionData, observerVars, bridgeVars,
                   componentVars, accountVars>>

\* getHeartRateData() at Date.now() = now (milliseconds), the device named name
getHeartRateData(now, name) ==
    [i \in 1..Len(heartRateData) |->
        [timestamp |-> now - (Len(heartRateData) - (i - 1) - 1) * 1000,
         value |-> heartRateData[i],
         confidence |-> Rat(95, 100),
         source |-> name]]

\* getMotionData() at Date.now() = now
getMotionData(now, name) ==
    [i \in 1..Len(motionData) |->
        [timestamp |-> now - (Len(motionData) - (i - 1) - 1) * 1000,
         source |-> name,
         x |-> motionData[i],
         y |-> motionData[i],
         z |-> motionData[i],
         magnitude |-> [radicand |-> 3 * motionData[i] * motionData[i]]]]

\* the connection drops without disconnect() being called (device out of range,
\* switched off): gatt.connected turns false, the service's fields stay
linkLoss ==
    /\ connected
    /\ connected' = FALSE
    /\ UNCHANGED <<sleepValue, sleepData, threw, call, isInitialized, isAuthorized,
                   deviceVars, observerVars, bridgeVars,
                   componentVars, accountVars>>

----------------------------------------------------------------------------
(* Strings: sequences of one-character strings *)

UpperLetters ==
    << "A", "B", "C", "D", "E", "F", "G", "H", "I", "J", "K", "L", "M",
       "N", "O", "P", "Q", "R", "S", "T", "U", "V", "W", "X", "Y", "Z" >>

LowerLetters ==
    << "a", "b", "c", "d", "e", "f", "g", "h", "i", "j", "k", "l", "m",
       "n", "o", "p", "q", "r", "s", "t", "u", "v", "w", "x", "y", "z" >>

\* one character of String.prototype.toLowerCase
LowerChar(c) ==
    IF \E i \in 1..Len(UpperLetters) : UpperLetters[i] = c
    THEN LowerLetters[CHOOSE i \in 1..Len(UpperLetters) : UpperLetters[i] = c]
    ELSE c

\* type.toLowerCase()
ToLowerCase(str) == [i \in 1..Len(str) |-> LowerChar(str[i])]

----------------------------------------------------------------------------
(* SamsungHealthService *)

\* mapPhaseType(type: string)
Samsung_mapPhaseType(type) ==
    LET lower == ToLowerCase(type)
    IN  CASE lower = <<"d", "e", "e", "p">> -> "Deep"
          [] lower = <<"r", "e", "m">> -> "REM"
          [] lower = <<"l", "i", "g", "h", "t">> \/ lower = <<"a", "w", "a", "k", "e">> -> "Light"
          [] OTHER -> "Light"

\* phases.<name> of (sleepData.phases || {}): only a plain object carries the totals;
\* an array of phase objects and a missing field have no such property
PhaseTotal(phases, name) ==
    IF phases.kind = "object" THEN phases[name] ELSE Undefined

\* new Date(d).getTime(): NaN for a missing field
DateGetTime(d) == IF d = Undefined THEN NaN ELSE d

\* calculateSleepQuality with the deep ratio counted against the score
Samsung_calculateSleepQuality_DeepPenalised(item) ==
    LET phases == item.phases
        totalDuration == JsSub(DateGetTime(item.endDate), DateGetTime(item.startDate))
        deepSleepRatio == JsDiv(OrDefault(PhaseTotal(phases, "deep"), Num(0)), totalDuration)
        remSleepRatio == JsDiv(OrDefault(PhaseTotal(phases, "rem"), Num(0)), totalDuration)
        lightSleepRatio == JsDiv(OrDefault(PhaseTotal(phases, "light"), Num(0)), totalDuration)
        awakeRatio == JsDiv(OrDefault(PhaseTotal(phases, "awake"), Num(0)), totalDuration)
        quality ==
            JsMul(JsAdd(JsAdd(JsAdd(JsMul(JsSub(Num(1), deepSleepRatio), Rat(4, 10)),
                                    JsMul(remSleepRatio, Rat(3, 10))),
                              JsMul(lightSleepRatio, Rat(2, 10))),
                        JsMul(JsSub(Num(1), awakeRatio), Rat(1, 10))),
                  Num(100))
    IN  IF JsStrictEq(totalDuration, Num(0)) THEN Num(0) ELSE MathRound(quality)

\* calculateSleepQuality(sleepData: any)
Samsung_calculateSleepQuality(item) ==
    LET phases == item.phases
        totalDuration == JsSub(DateGetTime(item.endDate), DateGetTime(item.startDate))
        deepSleepRatio == JsDiv(OrDefault(PhaseTotal(phases, "deep"), Num(0)), totalDuration)
        remSleepRatio == JsDiv(OrDefault(PhaseTotal(phases, "rem"), Num(0)), totalDuration)
        lightSleepRatio == JsDiv(OrDefault(PhaseTotal(phases, "light"), Num(0)), totalDuration)
        awakeRatio == JsDiv(OrDefault(PhaseTotal(phases, "awake"), Num(0)), totalDuration)
        quality ==
            JsMul(JsAdd(JsAdd(JsAdd(JsMul(deepSleepRatio, Rat(4, 10)),
                                    JsMul(remSleepRatio, Rat(3, 10))),
                              JsMul(lightSleepRatio, Rat(2, 10))),
                        JsMul(JsSub(Num(1), awakeRatio), Rat(1, 10))),
                  Num(100))
    IN  IF JsStrictEq(totalDuration, Num(0)) THEN Num(0) ELSE MathRound(quality)

\* item.phases.map(phase => ({ type, startTime, duration })) of mapSleepData
SessionPhases(list) ==
    [i \in 1..Len(list) |->
        [type |-> Samsung_mapPhaseType(list[i].type),
         startTime |-> list[i].startTime,
         duration |-> list[i].duration]]

\* item.phases.map throws a TypeError unless item.phases is an array
ItemThrows(item) == item.phases.kind # "array"

\* the callback of data.map in mapSleepData, for an item it does not throw on
MapSleepItem(item) ==
    [date |-> DateGetTime(item.startDate),
     startTime |-> item.startDate,
     duration |-> JsSub(DateGetTime(item.endDate), DateGetTime(item.startDate)),
     quality |-> Samsung_calculateSleepQuality(item),
     phases |-> SessionPhases(item.phases.list),
     heartRate |-> <<>>,
     movement |-> <<>>]

\* mapSleepData(data: any): the first item that throws ends the whole map
mapSleepData(data) ==
    IF \E i \in 1..Len(data) : ItemThrows(data[i])
    THEN [threw |-> TRUE, list |-> <<>>]
    ELSE [threw |-> FALSE, list |-> [i \in 1..Len(data) |-> MapSleepItem(data[i])]]

\* the value of getSleepData for the bridge's response: it throws when not
\* authorized, and returns [] when the bridge or mapSleepData throws
SleepDataResult(authorized, response) ==
    IF ~authorized THEN [threw |-> TRUE, list |-> <<>>]
    ELSE IF response.threw \/ mapSleepData(response.list).threw
         THEN [threw |-> FALSE, list |-> <<>>]
         ELSE mapSleepData(response.list)

\* the callback of data.map in getHeartRateData
MapHeartRateItem(item) ==
    [timestamp |-> item.startDate,
     value |-> item.value,
     confidence |-> OrDefault(item.confidence, Rat(95, 100)),
     source |-> "Samsung Health"]

\* the value of getHeartRateData for the bridge's response
HeartRateDataResult(authorized, response) ==
    IF ~authorized THEN [threw |-> TRUE, list |-> <<>>]
    ELSE IF response.threw THEN [threw |-> FALSE, list |-> <<>>]
         ELSE [threw |-> FALSE,
               list |-> [i \in 1..Len(response.list) |-> MapHeartRateItem(response.list[i])]]

\* item.acceleration?.<axis>
Axis(item, axis) ==
    IF item.acceleration = Undefined THEN Undefined ELSE item.acceleration[axis]

\* Math.pow(v, 2)
Squared(v) == JsMul(v, v)

\* Math.sqrt(v), kept as the number whose square is v
MathSqrt(v) == [radicand |-> v]

\* the callback of data.map in getMotionData
MapMotionItem(item) ==
    [timestamp |-> item.startDate,
     steps |-> item.steps,
     distance |-> item.distance,
     source |-> "Samsung Health",
     x |-> OrDefault(Axis(item, "x"), Num(0)),
     y |-> OrDefault(Axis(item, "y"), Num(0)),
     z |-> OrDefault(Axis(item, "z"), Num(0)),
     magnitude |-> MathSqrt(JsAdd(JsAdd(Squared(OrDefault(Axis(item, "x"), Num(0))),
                                        Squared(OrDefault(Axis(item, "y"), Num(0)))),
                                  Squared(OrDefault(Axis(item, "z"), Num(0)))))]

\* the value of getMotionData for the bridge's response
MotionDataResult(authorized, response) ==
    IF ~authorized THEN [threw |-> TRUE, list |-> <<>>]
    ELSE IF response.threw THEN [threw |-> FALSE, list |-> <<>>]
         ELSE [threw |-> FALSE,
               list |-> [i \in 1..Len(response.list) |-> MapMotionItem(response.list[i])]]

\* the permissions requestPermission and checkPermissions ask for
Permissions ==
    << "com.samsung.shealth.sleep", "com.samsung.shealth.heart_rate",
       "com.samsung.shealth.motion" >>

\* Object.values(result).every(status => status === 'permission_granted')
AllGranted(statuses) == \A i \in 1..Len(statuses) : statuses[i] = "permission_granted"

\* initialize(): initializeSDK sets isInitialized when the bridge exists and its
\* initialize() resolves to true; every other outcome leaves the field as it is
initialize(outcome) ==
    /\ isInitialized' = (isInitialized \/ outcome = "true")
    /\ UNCHANGED <<connected, sleepValue, sleepData, threw, call, isAuthorized,
                   deviceVars, observerVars, bridgeVars,
                   componentVars, accountVars>>

\* requestPermission() and checkPermissions(): the same body; outcome.threw is the
\* bridge call rejecting, outcome.list the values of the result object
requestPermission(outcome) ==
    /\ isAuthorized' = IF isInitialized /\ ~outcome.threw
                       THEN AllGranted(outcome.list)
                       ELSE isAuthorized
    /\ permissionResult' = IF isInitialized /\ ~outcome.threw /\ AllGranted(outcome.list)
                           THEN "true"
                           ELSE "false"
    /\ UNCHANGED <<connected, sleepValue, sleepData, threw, call, isInitialized,
                   deviceVars, observerVars, bridgeReads, fetchRefused,
                   componentVars, accountVars>>

checkPermissions(outcome) == requestPermission(outcome)

\* variant: the fetch reads from the bridge whether authorized or not
Fetched_Unchecked(fn, response, ret) ==
    /\ call = [fn |-> "none", arg |-> <<>>, ret |-> <<>>]
    /\ call' = [fn |-> fn, arg |-> response, ret |-> ret]
    /\ fetchRefused' = ~isAuthorized
    /\ bridgeReads' = bridgeReads + 1
    /\ UNCHANGED <<connected, sleepValue, sleepData, threw, isInitialized, isAuthorized,
                   deviceVars, observerVars, permissionResult,
                   componentVars, accountVars>>

\* getSleepData / getHeartRateData / getMotionData returning ret: the guard
\* if (!this.isAuthorized) throw ... comes before the read of the bridge, which
\* resolves to response
Fetched(fn, response, ret) ==
    /\ call = [fn |-> "none", arg |-> <<>>, ret |-> <<>>]
    /\ call' = [fn |-> fn, arg |-> response, ret |-> ret]
    /\ fetchRefused' = ~isAuthorized
    /\ bridgeReads' = IF isAuthorized THEN bridgeReads + 1 ELSE bridgeReads
    /\ UNCHANGED <<connected, sleepValue, sleepData, threw, isInitialized, isAuthorized,
                   deviceVars, observerVars, permissionResult,
                   componentVars, accountVars>>

----------------------------------------------------------------------------
(* DataAnalysis and DataComparison *)

\* x.toFixed(1), as the number the string denotes ("NaN" for NaN)
ToFixed1(x) ==
    IF x.nan \/ x.den = 0 THEN x
    ELSE IF x.num < 0
         THEN Rat(-((2 * 10 * (-x.num) + x.den) \div (2 * x.den)), 10)
         ELSE Rat((2 * 10 * x.num + x.den) \div (2 * x.den), 10)

RECURSIVE AllPhases(_)
\* the phases visited by sleepData.forEach(data => data.phases.forEach(...))
AllPhases(data) ==
    IF data = <<>> THEN <<>> ELSE Head(data).phases \o AllPhases(Tail(data))

RECURSIVE SumField(_, _)
\* data.reduce((sum, d) => sum + d[field], 0)
SumField(data, field) ==
    IF data = <<>> THEN Num(0)
    ELSE JsAdd(SumField(SubSeq(data, 1, Len(data) - 1), field), data[Len(data)][field])

\* (total / totalDuration) * 100, shown with one decimal
Percentage(total, totalDuration) ==
    ToFixed1(JsMul(JsDiv(Num(total), Num(totalDuration)), Num(100)))

\* DataAnalysis.calculatePhaseDistribution()
calculatePhaseDistribution(data) ==
    IF Len(data) = 0 THEN [deep |-> Num(0), rem |-> Num(0), light |-> Num(0)]
    ELSE LET phases == AllPhases(data)
             totalDeep == SumDurations(FilterType(phases, "Deep"))
             totalRem == SumDurations(FilterType(phases, "REM"))
             totalLight == SumDurations(FilterType(phases, "Light"))
             totalDuration == SumDurations(phases)
         IN  [deep |-> Percentage(totalDeep, totalDuration),
              rem |-> Percentage(totalRem, totalDuration),
              light |-> Percentage(totalLight, totalDuration)]

\* the start of the period: now moved back by the period's length in days
\* (7 for a week and for an unknown period; a calendar month; a calendar year)
PeriodStart(today, days) == today - days

\* DataComparison.calculatePeriodStats(period), days: the length of the period
calculatePeriodStats(data, today, days) ==
    LET startDate == PeriodStart(today, days)
        periodData == SelectSeq(data, LAMBDA d : d.date >= startDate)
        phases == AllPhases(periodData)
        totalDuration == SumField(periodData, "duration")
        totalQuality == SumField(periodData, "quality")
        totalDeep == SumDurations(FilterType(phases, "Deep"))
        totalRem == SumDurations(FilterType(phases, "REM"))
        totalLight == SumDurations(FilterType(phases, "Light"))
        totalPhaseDuration == SumDurations(phases)
    IN  IF Len(periodData) = 0
        THEN [duration |-> Num(0), quality |-> Num(0),
              deepSleep |-> Num(0), remSleep |-> Num(0), lightSleep |-> Num(0)]
        ELSE [duration |->
                  ToFixed1(JsDiv(JsDiv(totalDuration, Num(Len(periodData))), Num(60))),
              quality |-> ToFixed1(JsDiv(totalQuality, Num(Len(periodData)))),
              deepSleep |-> Percentage(totalDeep, totalPhaseDuration),
              remSleep |-> Percentage(totalRem, totalPhaseDuration),
              lightSleep |-> Percentage(totalLight, totalPhaseDuration)]

----------------------------------------------------------------------------
(* DataVisualization: a Date is its local time in minutes since the start of
   1 January 1970, every day taken to have 24 hours *)

MinutesPerDay == 1440
EpochDay == 4       \* 1 January 1970 was a Thursday

\* date.getDay(): 0 = Sunday .. 6 = Saturday
getDay(date) == (date \div MinutesPerDay + EpochDay) % 7

\* new Date(d.getFullYear(), d.getMonth(), d.getDate()).getTime()
dayKey(date) == date - (date % MinutesPerDay)

\* variant: Friday counted with the weekdays
weekdayEntries_ThroughFriday(data) ==
    SelectSeq(data, LAMBDA d : getDay(d.date) >= 0 /\ getDay(d.date) <= 5)

weekdayEntries(data) ==
    SelectSeq(data, LAMBDA d : getDay(d.date) >= 0 /\ getDay(d.date) <= 4)

weekendEntries(data) ==
    SelectSeq(data, LAMBDA d : getDay(d.date) = 5 \/ getDay(d.date) = 6)

\* entries.reduce((sum, d) => sum + (d.duration || 0), 0)
RECURSIVE SumOfDurations(_)
SumOfDurations(entries) ==
    IF entries = <<>> THEN Num(0)
    ELSE JsAdd(SumOfDurations(SubSeq(entries, 1, Len(entries) - 1)),
               OrDefault(entries[Len(entries)].duration, Num(0)))

\* Number(avg.toFixed(2)) of
\* avg = entries.length ? sum / 60 / entries.length : 0, for whole minutes
avgHours(entries) ==
    LET sum == SumOfDurations(entries)
    IN  IF Len(entries) = 0 \/ sum.num = 0 THEN Num(0)
        ELSE DoubleToFixed2(DoubleOver(DoubleDiv(sum.num, 60), Len(entries)))

weekdayVsWeekendData(data) ==
    << [label |-> "Weekdays (Sun-Thu)", hours |-> avgHours(weekdayEntries(data))],
       [label |-> "Weekends (Fri-Sat)", hours |-> avgHours(weekendEntries(data))] >>

RECURSIVE totals(_)
totals(data) ==
    IF data = <<>> THEN [inBed |-> Num(0), asleep |-> Num(0)]
    ELSE LET acc == totals(SubSeq(data, 1, Len(data) - 1))
             d == data[Len(data)]
             inBed == OrDefault(Nullish(d.timeInBed, d.duration), Num(0))
             asleep == OrDefault(d.duration, Num(0))
         IN  [inBed |-> JsAdd(acc.inBed, inBed), asleep |-> JsAdd(acc.asleep, asleep)]

\* totals.inBed > 0 ? Math.round((totals.asleep / totals.inBed) * 100) : 0,
\* for whole minutes
efficiencyPct(data) ==
    LET t == totals(data)
    IN  IF t.inBed.num > 0
        THEN IF t.asleep.num = 0 THEN Num(0)
             ELSE Num(DoubleRound(DoubleTimes(DoubleDiv(t.asleep.num, t.inBed.num), 100)))
        ELSE Num(0)

\* [today - 4, ..., today], each at midnight
lastFiveDays(now) == [i \in 1..5 |-> dayKey(now) - (5 - i) * MinutesPerDay]

\* variant: a night that reports no count is given the number of its awake phases
awakeningsOn_CountAwake(data, d) ==
    LET found == SelectSeq(data, LAMBDA s : dayKey(s.date) = dayKey(d))
    IN  IF found = <<>> THEN Num(0)
        ELSE Nullish(Head(found).awakenings,
                     Num(Len(FilterType(Head(found).phases, "Awake"))))

\* sleepData.find(s => dayKey(s.date) === dayKey(d))?.awakenings ?? 0
awakeningsOn(data, d) ==
    LET found == SelectSeq(data, LAMBDA s : dayKey(s.date) = dayKey(d))
    IN  IF found = <<>> THEN Num(0) ELSE Nullish(Head(found).awakenings, Num(0))

timesWokenData(data, now) ==
    [i \in 1..5 |-> [date |-> lastFiveDays(now)[i],
                     awakenings |-> awakeningsOn(data, lastFiveDays(now)[i])]]

\* what one render of the component computes for its charts
DataVisualization(data, now) ==
    [weekdayVsWeekendData |-> weekdayVsWeekendData(data),
     efficiencyPct |-> efficiencyPct(data),
     timesWokenData |-> timesWokenData(data, now)]

----------------------------------------------------------------------------
(* CloudSyncService *)

\* what the server does with a POST: it stores the data and answers success,
\* answers success: false, answers with a status outside 200-299, or cannot
\* be reached
Replies == {"accepted", "declined", "status 500", "unreachable"}

\* makeRequest(endpoint, method, data): a failed fetch and a response that is
\* not ok are thrown, the parsed body is returned otherwise
makeRequest(reply) ==
    IF reply \in {"status 500", "unreachable"}
    THEN [threw |-> TRUE, success |-> FALSE, message |-> reply]
    ELSE [threw |-> FALSE, success |-> reply = "accepted", message |-> reply]

\* syncSleepData(sleepData): what makeRequest throws is caught and returned as
\* { success: false, message }; the call itself never throws
syncSleepData(reply) ==
    LET response == makeRequest(reply)
    IN  IF response.threw
        THEN [threw |-> FALSE, success |-> FALSE, message |-> response.message]
        ELSE response

\* syncHeartRateData(heartRateData)
syncHeartRateData(reply) ==
    LET response == makeRequest(reply)
    IN  IF response.threw
        THEN [threw |-> FALSE, success |-> FALSE, message |-> response.message]
        ELSE response

\* syncMotionData(motionData)
syncMotionData(reply) ==
    LET response == makeRequest(reply)
    IN  IF response.threw
        THEN [threw |-> FALSE, success |-> FALSE, message |-> response.message]
        ELSE response

----------------------------------------------------------------------------
(* DataSync *)

\* useState<string | null>(null)
NoError == "null"

\* the component at its first render; running is the upload handleSync awaits,
\* responses what the uploads of the last handleSync resolved to
DataSyncRendered ==
    [success |-> FALSE, isSyncing |-> FALSE, error |-> NoError, running |-> "none",
     responses |-> <<>>]

\* handleSync up to its first await; the button is disabled while isSyncing
DataSync_handleSync ==
    /\ ~dataSync.isSyncing
    /\ dataSync' = [success |-> FALSE, isSyncing |-> TRUE, error |-> NoError,
                    running |-> "sleep", responses |-> <<>>]
    /\ UNCHANGED <<connected, sleepValue, sleepData, threw, call, isInitialized, isAuthorized,
                   deviceVars, observerVars, bridgeVars, deviceConnection, accountVars>>

\* handleSync from one await to the next, and to its end after the third: the
\* value the upload resolved to is dropped, catch runs when the upload threw,
\* finally ends the handler
DataSync_handleSync_resumed(reply) ==
    /\ dataSync.running \in {"sleep", "heartRate", "motion"}
    /\ LET response == CASE dataSync.running = "sleep" -> syncSleepData(reply)
                         [] dataSync.running = "heartRate" -> syncHeartRateData(reply)
                         [] dataSync.running = "motion" -> syncMotionData(reply)
           responses == Append(dataSync.responses, response)
       IN  dataSync' =
               IF response.threw
               THEN [success |-> dataSync.success, isSyncing |-> FALSE,
                     error |-> response.message, running |-> "none",
                     responses |-> responses]
               ELSE IF dataSync.running = "motion"
               THEN [success |-> TRUE, isSyncing |-> FALSE, error |-> dataSync.error,
                     running |-> "none", responses |-> responses]
               ELSE [success |-> dataSync.success, isSyncing |-> dataSync.isSyncing,
                     error |-> dataSync.error,
                     running |-> IF dataSync.running = "sleep" THEN "heartRate" ELSE "motion",
                     responses |-> responses]
    /\ UNCHANGED <<connected, sleepValue, sleepData, threw, call, isInitialized, isAuthorized,
                   deviceVars, observerVars, bridgeVars, deviceConnection, accountVars>>

----------------------------------------------------------------------------
(* DeviceConnection *)

\* the component at its first render, the effect that calls initSamsungHealth
\* still to run; running is the handler that awaits its service calls, empty
\* is sleepData.length === 0
DeviceConnectionRendered ==
    [isSyncing |-> FALSE, error |-> NoError, running |-> "none", syncStatus |-> "null",
     isSamsungHealthInitialized |-> FALSE, isSamsungHealthAuthorized |-> FALSE,
     empty |-> TRUE, effects |-> "pending"]

\* initSamsungHealth(), run once by the effect: initialized and authorized are
\* what samsungHealthService.initialize() and checkPermissions() resolve to
initSamsungHealth(initialized, authorized) ==
    /\ deviceConnection.effects = "pending"
    /\ deviceConnection' =
           [deviceConnection EXCEPT !.error = NoError,
                                    !.isSamsungHealthInitialized = initialized,
                                    !.isSamsungHealthAuthorized = initialized /\ authorized,
                                    !.effects = "run"]
    /\ UNCHANGED <<connected, sleepValue, sleepData, threw, call, isInitialized, isAuthorized,
                   deviceVars, observerVars, bridgeVars, dataSync, accountVars>>

\* handleRequestPermissions(), from the dialog that is offered while the
\* service is not authorized: authorized is what requestPermission() resolves to
handleRequestPermissions(authorized) ==
    /\ deviceConnection.effects = "run"
    /\ ~deviceConnection.isSamsungHealthAuthorized
    /\ deviceConnection' =
           IF authorized
           THEN [deviceConnection EXCEPT !.error = NoError,
                                         !.syncStatus = "Successfully connected to Samsung Health!",
                                         !.isSamsungHealthAuthorized = TRUE]
           ELSE [deviceConnection EXCEPT !.error = "Failed to get permissions from Samsung Health. Please try again."]
    /\ UNCHANGED <<connected, sleepValue, sleepData, threw, call, isInitialized, isAuthorized,
                   deviceVars, observerVars, bridgeVars, dataSync, accountVars>>

\* handleSync up to its await; its button is disabled while isSyncing and
\* while there is no sleep data
DeviceConnection_handleSync ==
    /\ ~deviceConnection.isSyncing
    /\ ~deviceConnection.empty
    /\ deviceConnection' = [deviceConnection EXCEPT !.isSyncing = TRUE, !.error = NoError,
                                                    !.running = "handleSync"]
    /\ UNCHANGED <<connected, sleepValue, sleepData, threw, call, isInitialized, isAuthorized,
                   deviceVars, observerVars, bridgeVars, dataSync, accountVars>>

\* handleSync after Promise.all of the three uploads has settled
DeviceConnection_handleSync_resumed(sleepReply, heartRateReply, motionReply) ==
    /\ deviceConnection.running = "handleSync"
    /\ LET sleepResponse == syncSleepData(sleepReply)
           heartRateResponse == syncHeartRateData(heartRateReply)
           motionResponse == syncMotionData(motionReply)
           allSuccessful ==
               sleepResponse.success /\ heartRateResponse.success /\ motionResponse.success
       IN  deviceConnection' =
               IF sleepResponse.threw \/ heartRateResponse.threw \/ motionResponse.threw
               THEN [deviceConnection EXCEPT !.isSyncing = FALSE,
                                             !.error = "Failed to sync data",
                                             !.running = "none"]
               ELSE [deviceConnection EXCEPT
                         !.isSyncing = FALSE,
                         !.running = "none",
                         !.syncStatus = IF allSuccessful THEN "Data synced successfully"
                                        ELSE "Some data failed to sync"]
    /\ UNCHANGED <<connected, sleepValue, sleepData, threw, call, isInitialized, isAuthorized,
                   deviceVars, observerVars, bridgeVars, dataSync, accountVars>>

\* what Promise.all of the three fetches of samsungHealthService settles to:
\* lists with or without sleep records, or the exception of one of them
Fetches == {"records", "no records", "throws"}

\* handleSamsungHealthSync up to its await; its button is offered while
\* isSamsungHealthAuthorized and disabled while isSyncing
handleSamsungHealthSync ==
    /\ deviceConnection.isSamsungHealthAuthorized
    /\ ~deviceConnection.isSyncing
    /\ deviceConnection' =
           IF ~deviceConnection.isSamsungHealthInitialized
                  \/ ~deviceConnection.isSamsungHealthAuthorized
           THEN [deviceConnection EXCEPT !.error = "Please connect to Samsung Health first."]
           ELSE [deviceConnection EXCEPT !.isSyncing = TRUE, !.error = NoError,
                                         !.running = "handleSamsungHealthSync"]
    /\ UNCHANGED <<connected, sleepValue, sleepData, threw, call, isInitialized, isAuthorized,
                   deviceVars, observerVars, bridgeVars, dataSync, accountVars>>

\* variant: isSyncing is cleared at the end of the try block only
handleSamsungHealthSync_resumed_ClearedInTry(fetched) ==
    /\ deviceConnection.running = "handleSamsungHealthSync"
    /\ deviceConnection' =
           IF fetched = "throws"
           THEN [deviceConnection EXCEPT
                     !.error = "Failed to sync data from Samsung Health. Please try again.",
                     !.running = "none"]
           ELSE [deviceConnection EXCEPT !.isSyncing = FALSE,
                                         !.running = "none",
                                         !.syncStatus = "Synced",
                                         !.empty = (fetched = "no records")]
    /\ UNCHANGED <<connected, sleepValue, sleepData, threw, call, isInitialized, isAuthorized,
                   deviceVars, observerVars, bridgeVars, dataSync, accountVars>>

\* handleSamsungHealthSync after Promise.all of the three fetches has settled
handleSamsungHealthSync_resumed(fetched) ==
    /\ deviceConnection.running = "handleSamsungHealthSync"
    /\ deviceConnection' =
           IF fetched = "throws"
           THEN [deviceConnection EXCEPT
                     !.isSyncing = FALSE,
                     !.error = "Failed to sync data from Samsung Health. Please try again.",
                     !.running = "none"]
           ELSE [deviceConnection EXCEPT !.isSyncing = FALSE,
                                         !.running = "none",
                                         !.syncStatus = "Synced",
                                         !.empty = (fetched = "no records")]
    /\ UNCHANGED <<connected, sleepValue, sleepData, threw, call, isInitialized, isAuthorized,
                   deviceVars, observerVars, bridgeVars, dataSync, accountVars>>

----------------------------------------------------------------------------
(* AuthContext *)

\* parentId?: string left out
NoParent == 0

\* currentUser === null; shared tells whether currentUser is the very object
\* that is stored in users
Null == [shared |-> FALSE, id |-> 0, email |-> "", role |-> "none", parentId |-> NoParent,
         children |-> <<>>]

\* Math.random().toString(36).substr(2, 9): the ids are taken to be distinct,
\* the n-th user created gets the id n
NewId == Len(users) + 1

\* users.some(u => u.email === email)
Registered(list, email) == \E i \in DOMAIN list : list[i].email = email

\* users.find(u => u.email === email), for a registered email
FindByEmail(list, email) ==
    list[CHOOSE i \in DOMAIN list :
             /\ list[i].email = email
             /\ \A k \in 1..(i - 1) : list[k].email # email]

\* the object user as the value of currentUser
AsCurrent(user, shared) ==
    [shared |-> shared, id |-> user.id, email |-> user.email, role |-> user.role,
     parentId |-> user.parentId, children |-> user.children]

\* list with child appended to the children of its first user with the id parent
\* (parent.children = [...(parent.children || []), child], on the stored object)
WithChild(list, parent, child) ==
    [i \in DOMAIN list |->
        IF list[i].id = parent /\ \A k \in 1..(i - 1) : list[k].id # parent
        THEN [list[i] EXCEPT !.children = Append(@, child)]
        ELSE list[i]]

\* login(email, password)
login(email) ==
    /\ IF ~Registered(users, email)
       THEN /\ threw' = TRUE
            /\ UNCHANGED <<users, currentUser>>
       ELSE /\ threw' = FALSE
            /\ currentUser' = AsCurrent(FindByEmail(users, email), TRUE)
            /\ UNCHANGED users
    /\ UNCHANGED <<connected, sleepValue, sleepData, call, isInitialized, isAuthorized,
                   deviceVars, observerVars, bridgeVars, componentVars>>

\* signup(email, password, role, parentId)
signup(email, role, parentId) ==
    /\ Len(users) < MaxUsers
    /\ IF Registered(users, email)
       THEN /\ threw' = TRUE
            /\ UNCHANGED <<users, currentUser>>
       ELSE LET newUser == [id |-> NewId, email |-> email, role |-> role,
                            parentId |-> parentId, children |-> <<>>]
                updatedUsers == Append(users, newUser)
            IN  /\ threw' = FALSE
                /\ users' = IF role = "child" /\ parentId # NoParent
                            THEN WithChild(updatedUsers, parentId, newUser.id)
                            ELSE updatedUsers
                /\ currentUser' = AsCurrent(newUser, TRUE)
    /\ UNCHANGED <<connected, sleepValue, sleepData, call, isInitialized, isAuthorized,
                   deviceVars, observerVars, bridgeVars, componentVars>>

\* addChild(childEmail, childName, childAge): currentUser.children is assigned
\* on the object currentUser, which is the stored one after login and signup
\* and a copy after addChild
addChild(childEmail) ==
    /\ Len(users) < MaxUsers
    /\ IF currentUser = Null \/ currentUser.role # "parent"
       THEN /\ threw' = TRUE
            /\ UNCHANGED <<users, currentUser>>
       ELSE LET newChild == [id |-> NewId, email |-> childEmail, role |-> "child",
                             parentId |-> currentUser.id, children |-> <<>>]
                updatedUsers == Append(users, newChild)
            IN  /\ threw' = FALSE
                /\ users' = IF currentUser.shared
                            THEN WithChild(updatedUsers, currentUser.id, newChild.id)
                            ELSE updatedUsers
                /\ currentUser' = [currentUser EXCEPT !.shared = FALSE,
                                                      !.children = Append(@, newChild.id)]
    /\ UNCHANGED <<connected, sleepValue, sleepData, call, isInitialized, isAuthorized,
                   deviceVars, observerVars, bridgeVars, componentVars>>

\* logout()
logout ==
    /\ currentUser' = Null
    /\ threw' = FALSE
    /\ UNCHANGED <<connected, sleepValue, sleepData, call, isInitialized, isAuthorized,
                   deviceVars, observerVars, bridgeVars, componentVars, users>>

----------------------------------------------------------------------------
(* The device side: payloads in the record layout processSleepData reads *)

\* a 32-bit unsigned integer as 4 bytes, big-endian
Uint32Bytes(n) ==
    << (n \div 16777216) % 256, (n \div 65536) % 256, (n \div 256) % 256, n % 256 >>

\* one 9-byte phase record
RecordBytes(r) == <<r.code>> \o Uint32Bytes(r.start) \o Uint32Bytes(r.duration)

\* the payload made of the records rs, in order
PayloadOf(rs) == Concat([i \in 1..Len(rs) |-> RecordBytes(rs[i])])

\* whole payloads of at most n records of R
WholePayloads(R, n) == { PayloadOf(rs) : rs \in SeqsUpTo(R, n) }

\* payloads cut inside their last record
TruncatedPayloads(R, n) ==
    IF n = 0 THEN {}
    ELSE { PayloadOf(rs) \o SubSeq(RecordBytes(r), 1, k) :
             rs \in SeqsUpTo(R, n - 1), r \in R, k \in 1..(RecordSize - 1) }

\* the night the wearable recorded: A spans minute 0-30, B spans minute 20-40
\* (start in milliseconds, duration in minutes), C has an unmapped code
DeviceRecording ==
    << [code |-> 0, start |-> 0, duration |-> 30],
       [code |-> 1, start |-> 1200000, duration |-> 20],
       [code |-> 7, start |-> 3600000, duration |-> 270],
       [code |-> 2, start |-> 19800000, duration |-> 60] >>

\* the records a payload can carry
SentRecords == IF MaxRecords < Len(DeviceRecording) THEN MaxRecords ELSE Len(DeviceRecording)

\* the first m records of the night, whole, and cut inside the last of them
DevicePayloads ==
    { PayloadOf(SubSeq(DeviceRecording, 1, m)) : m \in 0..SentRecords }
        \cup { PayloadOf(SubSeq(DeviceRecording, 1, m - 1))
                   \o SubSeq(RecordBytes(DeviceRecording[m]), 1, k) :
               m \in 1..SentRecords, k \in 1..(RecordSize - 1) }

ClockValues == 0..MaxClock

----------------------------------------------------------------------------
(* The service under notifications *)

NoCall == [fn |-> "none", arg |-> <<>>, ret |-> <<>>]

Init ==
    /\ connected = FALSE
    /\ sleepValue = <<>>
    /\ sleepData = <<>>
    /\ threw = FALSE
    /\ call = NoCall
    /\ isInitialized = FALSE
    /\ isAuthorized = FALSE
    /\ heartRateData = <<>>
    /\ motionData = <<>>
    /\ consumer = NoList
    /\ notified = NoneNotified
    /\ released = FALSE
    /\ permissionResult = "none"
    /\ bridgeReads = 0
    /\ fetchRefused = FALSE
    /\ dataSync = DataSyncRendered
    /\ deviceConnection = DeviceConnectionRendered
    /\ users = <<>>
    /\ currentUser = Null

SleepNotification == \E value \in DevicePayloads, now \in ClockValues : handleSleepData(value, now)

WearableNext ==
    \/ connectDevice
    \/ SleepNotification
    \/ disconnect

SpecWearable == Init /\ [][WearableNext]_vars

----------------------------------------------------------------------------
(* The service under the notifications of all three characteristics *)

\* the first record of the night
NightPayloads == { PayloadOf(SubSeq(DeviceRecording, 1, 1)) }

\* values of the heart-rate characteristic: 60, 72 with a flags byte, nothing
HeartRatePayloads == { <<60>>, <<72, 1>>, <<>> }

\* values of the motion characteristic
MotionPayloads == { <<3>>, <<>> }

\* the wall clock does not advance while the samples arrive
NightNotification ==
    \E value \in NightPayloads, now \in {0} : handleSleepData(value, now)

HeartRateNotification == \E value \in HeartRatePayloads : handleHeartRateData(value)

MotionNotification == \E value \in MotionPayloads : handleMotionData(value)

DeviceNext ==
    \/ connectDevice
    \/ NightNotification
    \/ HeartRateNotification
    \/ MotionNotification
    \/ getSleepData
    \/ linkLoss
    \/ disconnect

SpecDevice == Init /\ [][DeviceNext]_vars

----------------------------------------------------------------------------
(* The pure functions, each applied to inputs drawn from bounded sets *)

\* phase type strings a vendor item may carry
TypeStrings ==
    { <<"d", "e", "e", "p">>, <<"D", "E", "E", "P">>, <<"D", "e", "e", "p">>,
      <<"r", "e", "m">>, <<"R", "E", "M">>, <<"R", "e", "m">>,
      <<"l", "i", "g", "h", "t">>, <<"L", "i", "g", "h", "t">>,
      <<"a", "w", "a", "k", "e">>, <<"A", "W", "A", "K", "E">>,
      <<"n", "a", "p">>, <<"d", "e", "e">>, <<"d", "e", "e", "p", " ">>,
      <<"r", "e", "m", "2">>, <<"U", "N", "K", "N", "O", "W", "N">>, <<>> }

\* normalized phases handed to the wearable's quality computation
QualityPhases ==
    { [type |-> t, startTime |-> 0, duration |-> d] :
        t \in {"Deep", "REM", "Light"}, d \in {0, 90, 120, 270} }

\* vendor items handed to the Samsung quality computation
SamsungPhases ==
    { [kind |-> "missing", list |-> <<>>, deep |-> Undefined, rem |-> Undefined,
       light |-> Undefined, awake |-> Undefined] }
    \cup { [kind |-> "array", list |-> l, deep |-> Undefined, rem |-> Undefined,
            light |-> Undefined, awake |-> Undefined] :
             l \in { <<>>, << [type |-> <<"d", "e", "e", "p">>, startTime |-> 0,
                              duration |-> 120] >> } }
    \cup { [kind |-> "object", list |-> <<>>, deep |-> d, rem |-> r, light |-> l, awake |-> a] :
             d \in {Undefined, Num(0), Num(120), Num(240)},
             r \in {Undefined, Num(90), Num(180)},
             l \in {Undefined, Num(270)},
             a \in {Undefined, Num(30), Num(60)} }

SamsungItems ==
    { [startDate |-> sd, endDate |-> ed, phases |-> ph] :
        sd \in {Undefined, Num(0), Num(960)},
        ed \in {Undefined, Num(0), Num(480), Num(960)},
        ph \in SamsungPhases }

\* records of the decoder's inputs: every branch of the code switch, all four
\* bytes of a 32-bit field in use (values below 2^31, the range of TLC's integers)
DecodeRecords ==
    { [code |-> c, start |-> sd[1], duration |-> sd[2]] :
        c \in {0, 1, 2, 3, 7, 255},
        sd \in { <<1200000, 20>>, <<2130838014, 0>> } }

DecodePayloads ==
    WholePayloads(DecodeRecords, MaxRecords) \cup TruncatedPayloads(DecodeRecords, MaxRecords)

\* one call is observed per behaviour: the functions keep no state between calls
NotCalled == call = NoCall

Called(fn, arg, ret) ==
    /\ NotCalled
    /\ call' = [fn |-> fn, arg |-> arg, ret |-> ret]
    /\ UNCHANGED <<connected, sleepValue, sleepData, threw, isInitialized, isAuthorized,
                   deviceVars, observerVars, bridgeVars,
                   componentVars, accountVars>>

CallWearableMapPhaseType ==
    /\ NotCalled
    /\ \E type \in 0..255 :
           Called("WearableService.mapPhaseType", type, Wearable_mapPhaseType(type))

CallSamsungMapPhaseType ==
    /\ NotCalled
    /\ \E type \in TypeStrings :
           Called("SamsungHealthService.mapPhaseType", type, Samsung_mapPhaseType(type))

CallWearableQuality ==
    /\ NotCalled
    /\ \E phases \in SeqsUpTo(QualityPhases, MaxPhases) :
           Called("WearableService.calculateSleepQuality", phases,
                  Wearable_calculateSleepQuality(phases))

CallSamsungQuality ==
    /\ NotCalled
    /\ \E item \in SamsungItems :
           Called("SamsungHealthService.calculateSleepQuality", item,
                  Samsung_calculateSleepQuality(item))

CallProcessSleepData ==
    /\ NotCalled
    /\ \E value \in DecodePayloads, now \in ClockValues :
           Called("WearableService.processSleepData", value, processSleepData(value, now))

FnNext ==
    \/ CallWearableMapPhaseType
    \/ CallSamsungMapPhaseType
    \/ CallWearableQuality
    \/ CallSamsungQuality
    \/ CallProcessSleepData

SpecFn == Init /\ [][FnNext]_vars

----------------------------------------------------------------------------
(* The analysis components, rendered with sessions the services produce *)

AnalysedPhases ==
    { [type |-> t, startTime |-> 0, duration |-> d] :
        t \in {"Deep", "REM", "Light"}, d \in {0, 30} }

\* sessions as WearableService builds them; dates in days
AnalysedSessions ==
    { [date |-> d,
       duration |-> Num(SumDurations(phases)),
       quality |-> Wearable_calculateSleepQuality(phases),
       phases |-> phases,
       heartRate |-> <<>>,
       movement |-> <<>>] :
        d \in {380, 393}, phases \in SeqsUpTo(AnalysedPhases, MaxAnalysedPhases) }

\* the lengths in days of 'week', 'month' and 'year' before a given day
PeriodLengths ==
    { <<"week", 7>>, <<"month", 28>>, <<"month", 29>>, <<"month", 30>>, <<"month", 31>>,
      <<"year", 365>>, <<"year", 366>> }

RenderDataAnalysis ==
    /\ NotCalled
    /\ \E data \in SeqsUpTo(AnalysedSessions, MaxAnalysed) :
           Called("DataAnalysis.calculatePhaseDistribution", data,
                  calculatePhaseDistribution(data))

RenderDataComparison ==
    /\ NotCalled
    /\ \E data \in SeqsUpTo(AnalysedSessions, MaxAnalysed), p \in PeriodLengths :
           Called("DataComparison.calculatePeriodStats",
               [sleepData |-> data, period |-> p[1], today |-> 400, days |-> p[2]],
               calculatePeriodStats(data, 400, p[2]))

AnalysisNext ==
    \/ RenderDataAnalysis
    \/ RenderDataComparison

SpecAnalysis == Init /\ [][AnalysisNext]_vars

----------------------------------------------------------------------------
(* SamsungHealthService over the responses of the bridge *)

\* vendor phases: a deep phase from minute 10, a light phase from minute 130
VendorDeep == [type |-> <<"d", "e", "e", "p">>, startTime |-> 600000, duration |-> 120]
VendorLight == [type |-> <<"l", "i", "g", "h", "t">>, startTime |-> 7800000, duration |-> 270]

ArrayPhases(l) ==
    [kind |-> "array", list |-> l, deep |-> Undefined, rem |-> Undefined,
     light |-> Undefined, awake |-> Undefined]

MissingPhases ==
    [kind |-> "missing", list |-> <<>>, deep |-> Undefined, rem |-> Undefined,
     light |-> Undefined, awake |-> Undefined]

\* sleep records of a response: each required field present or missing
SleepItems ==
    { [startDate |-> sd, endDate |-> ed, phases |-> ph] :
        sd \in {Undefined, Num(0)},
        ed \in {Undefined, Num(0), Num(24000000)},
        ph \in {MissingPhases} \cup
               { ArrayPhases(l) : l \in { <<>>, <<VendorDeep>>, <<VendorDeep, VendorLight>>,
                                          <<VendorLight, VendorDeep>> } } }

HeartRateItems ==
    { [startDate |-> Num(0), value |-> Num(60), confidence |-> c] :
        c \in {Undefined, Num(0), Rat(1, 2), Num(1)} }

MotionItems ==
    { [startDate |-> Num(0), steps |-> Num(10), distance |-> Num(5), acceleration |-> a] :
        a \in {Undefined} \cup
              { [x |-> ax, y |-> ay, z |-> az] :
                  ax \in {Undefined, Num(0), Num(3)},
                  ay \in {Undefined, Num(4)},
                  az \in {Undefined, Num(0)} } }

\* a sleep record with both dates and a list of phases
WholeItem(item) ==
    item.startDate # Undefined /\ item.endDate # Undefined /\ item.phases.kind = "array"

\* what a bridge read resolves to: a rejection, or an array of at most MaxBatch records
Responses(Items) ==
    { [threw |-> TRUE, list |-> <<>>] }
        \cup { [threw |-> FALSE, list |-> l] : l \in SeqsUpTo(Items, MaxBatch) }

\* what window.SamsungHealthBridge.requestPermissions resolves to
PermissionOutcomes ==
    { [threw |-> TRUE, list |-> <<>>] }
        \cup { [threw |-> FALSE, list |-> l] :
                 l \in SeqsUpTo({"permission_granted", "permission_denied"}, Len(Permissions)) }

Initialize == \E outcome \in {"absent", "true", "false", "throws"} : initialize(outcome)

RequestPermission == \E outcome \in PermissionOutcomes : requestPermission(outcome)

CheckPermissions == \E outcome \in PermissionOutcomes : checkPermissions(outcome)

GetSleepData ==
    /\ NotCalled
    /\ \E response \in Responses(SleepItems) :
           Fetched("SamsungHealthService.getSleepData", response,
                   SleepDataResult(isAuthorized, response))

GetHeartRateData ==
    /\ NotCalled
    /\ \E response \in Responses(HeartRateItems) :
           Fetched("SamsungHealthService.getHeartRateData", response,
                   HeartRateDataResult(isAuthorized, response))

GetMotionData ==
    /\ NotCalled
    /\ \E response \in Responses(MotionItems) :
           Fetched("SamsungHealthService.getMotionData", response,
                   MotionDataResult(isAuthorized, response))

SamsungNext ==
    \/ Initialize
    \/ RequestPermission
    \/ CheckPermissions
    \/ GetSleepData
    \/ GetHeartRateData
    \/ GetMotionData

SpecSamsung == Init /\ [][SamsungNext]_vars

----------------------------------------------------------------------------
(* SamsungHealthService between initialization, permission and fetch *)

\* a rejection, no record, or one record
ShortResponses(Items) ==
    { [threw |-> TRUE, list |-> <<>>], [threw |-> FALSE, list |-> <<>>] }
        \cup { [threw |-> FALSE, list |-> <<item>>] : item \in Items }

FetchSleepData ==
    /\ NotCalled
    /\ \E response \in ShortResponses({ item \in SleepItems : WholeItem(item) }) :
           Fetched("SamsungHealthService.getSleepData", response,
                   SleepDataResult(isAuthorized, response))

FetchHeartRateData ==
    /\ NotCalled
    /\ \E response \in ShortResponses(HeartRateItems) :
           Fetched("SamsungHealthService.getHeartRateData", response,
                   HeartRateDataResult(isAuthorized, response))

FetchMotionData ==
    /\ NotCalled
    /\ \E response \in ShortResponses({ item \in MotionItems : item.acceleration = Undefined }) :
           Fetched("SamsungHealthService.getMotionData", response,
                   MotionDataResult(isAuthorized, response))

AuthorizationNext ==
    \/ Initialize
    \/ RequestPermission
    \/ CheckPermissions
    \/ FetchSleepData
    \/ FetchHeartRateData
    \/ FetchMotionData

SpecAuthorization == Init /\ [][AuthorizationNext]_vars

----------------------------------------------------------------------------
(* DataSync and DeviceConnection in use *)

DataSyncResumed == \E reply \in Replies : DataSync_handleSync_resumed(reply)

InitSamsungHealth ==
    \E initialized \in BOOLEAN, authorized \in BOOLEAN :
        initSamsungHealth(initialized, authorized)

\* requestPermission() resolves to true only for an initialized service
HandleRequestPermissions ==
    \E authorized \in (IF deviceConnection.isSamsungHealthInitialized
                       THEN BOOLEAN ELSE {FALSE}) :
        handleRequestPermissions(authorized)

HandleSyncResumed ==
    \E sleepReply \in Replies, heartRateReply \in Replies, motionReply \in Replies :
        DeviceConnection_handleSync_resumed(sleepReply, heartRateReply, motionReply)

HandleSamsungHealthSyncResumed ==
    \E fetched \in Fetches : handleSamsungHealthSync_resumed(fetched)

ComponentsNext ==
    \/ DataSync_handleSync
    \/ DataSyncResumed
    \/ InitSamsungHealth
    \/ HandleRequestPermissions
    \/ DeviceConnection_handleSync
    \/ HandleSyncResumed
    \/ handleSamsungHealthSync
    \/ HandleSamsungHealthSyncResumed

SpecComponents == Init /\ [][ComponentsNext]_vars

\* every service call a handler awaits settles
SpecComponentsLive ==
    /\ SpecComponents
    /\ WF_vars(DataSyncResumed)
    /\ WF_vars(HandleSyncResumed)
    /\ WF_vars(HandleSamsungHealthSyncResumed)

----------------------------------------------------------------------------
(* AuthContext in use *)

Emails == {"ann@example.org", "ben@example.org"}

Login == \E email \in Emails : login(email)

Signup ==
    \E email \in Emails, role \in {"parent", "child"}, parentId \in 0..MaxUsers :
        signup(email, role, parentId)

AddChild == \E childEmail \in Emails : addChild(childEmail)

AccountNext ==
    \/ Login
    \/ Signup
    \/ AddChild
    \/ logout

SpecAccount == Init /\ [][AccountNext]_vars

----------------------------------------------------------------------------
(* DataVisualization rendered with tracked and imported sessions *)

\* the day, counted from 1 January 1970, at a minute of it
At(day, minute) == day * MinutesPerDay + minute

\* a night with two awake phases and a gap between the phases
RestlessNight ==
    << [type |-> "Light", startTime |-> 0, duration |-> 60],
       [type |-> "Awake", startTime |-> 3600000, duration |-> 10],
       [type |-> "Deep", startTime |-> 6000000, duration |-> 90],
       [type |-> "Awake", startTime |-> 11400000, duration |-> 5] >>

\* a session as the SleepData type admits it: timeInBed and awakenings are
\* optional, and nothing relates them to duration or to the phases
VisualisedSession(date, duration, timeInBed, awakenings) ==
    [date |-> date,
     duration |-> duration,
     quality |-> Wearable_calculateSleepQuality(RestlessNight),
     timeInBed |-> timeInBed,
     awakenings |-> awakenings,
     phases |-> RestlessNight,
     heartRate |-> <<>>,
     movement |-> <<>>]

\* a Thursday night and a Friday at midnight
VisualisedSessions ==
    { VisualisedSession(date, duration, timeInBed, awakenings) :
        date \in {At(7, 1320), At(8, 0)},
        duration \in {Num(276), Num(500)},
        timeInBed \in {Undefined, Num(0), Num(480)},
        awakenings \in {Undefined, Num(3)} }

\* Sunday to Thursday 480 minutes each, Friday and Saturday 420 minutes each
ExampleWeek ==
    [i \in 1..7 |-> VisualisedSession(At(2 + i, 1380),
                                      IF i <= 5 THEN Num(480) ELSE Num(420),
                                      Undefined, Undefined)]

\* new Date(): the Saturday morning after those nights, the Tuesday after it
Todays == {At(9, 540), At(12, 600)}

RenderDataVisualization ==
    /\ NotCalled
    /\ \E data \in SeqsUpTo(VisualisedSessions, MaxVisualised) \cup {ExampleWeek},
          now \in Todays :
           Called("DataVisualization",
                  [sleepData |-> data, today |-> now],
                  DataVisualization(data, now))

VisualizationNext == RenderDataVisualization

SpecVisualization == Init /\ [][VisualizationNext]_vars

----------------------------------------------------------------------------
(* Properties of the quality score *)

IsWearableQuality == call.fn = "WearableService.calculateSleepQuality"
IsSamsungQuality == call.fn = "SamsungHealthService.calculateSleepQuality"

\* round-half-up of 100 x (0.4 deep + 0.3 rem + 0.2 light + 0.1 (1 - awake)), each
\* ratio the type's total over the sum of all phase durations (positive)
WeightedQuality(phases) ==
    LET total == SumDurations(phases)
        deep == SumDurations(FilterType(phases, "Deep"))
        rem == SumDurations(FilterType(phases, "REM"))
        light == SumDurations(FilterType(phases, "Light"))
        awake == SumDurations(FilterType(phases, "Awake"))
        weighted == 40 * deep + 30 * rem + 20 * light + 10 * (total - awake)
    IN  Num((2 * weighted + total) \div (2 * total))

\* C1: for every session whose phases have a positive total duration, the quality
\* is round-half-up of 100 x (0.4 deepRatio + 0.3 remRatio + 0.2 lightRatio +
\* 0.1 (1 - awakeRatio)), the ratios taken over the sum of the phase durations;
\* Deep 120, REM 90, Light 270 gives 37.
C1_QualityIsWeightedRatios ==
    /\ (IsWearableQuality /\ SumDurations(call.arg) > 0)
           => call.ret = WeightedQuality(call.arg)
    /\ (IsSamsungQuality /\ call.arg.phases.kind = "array"
                         /\ SumDurations(call.arg.phases.list) > 0)
           => call.ret = WeightedQuality(SessionPhases(call.arg.phases.list))

\* C2: the quality stored on every session is an integer in 0..100.
C2_StoredQualityIsPercentage ==
    \A i \in DOMAIN sleepData :
        /\ IsInteger(sleepData[i].quality)
        /\ sleepData[i].quality.num \in 0..100

\* C3: a session whose phases have total duration zero (also one without phases)
\* has quality exactly 0.
C3_ZeroDurationQualityZero ==
    \A i \in DOMAIN sleepData :
        SumDurations(sleepData[i].phases) = 0 => sleepData[i].quality = Num(0)

\* the ratios of a vendor item, as calculateSleepQuality takes them over the span
SpanOf(item) == JsSub(DateGetTime(item.endDate), DateGetTime(item.startDate))

HasRatios(item) == ~SpanOf(item).nan /\ SpanOf(item).num # 0

ItemRatio(item, name) ==
    JsDiv(OrDefault(PhaseTotal(item.phases, name), Num(0)), SpanOf(item))

\* the ratios of a normalized phase list, over the sum of the durations
ListRatio(phases, type) ==
    JsDiv(Num(SumDurations(FilterType(phases, type))), Num(SumDurations(phases)))

JsLeq(a, b) == ~JsLess(b, a)

\* phase lists the wearable's score is compared against
ComparedPhases == SeqsUpTo(QualityPhases, 2)

\* C5: with the REM, Light and Awake ratios held fixed, a session with the larger
\* deep ratio has a quality at least that of the other.
C5_QualityMonotoneInDeepRatio ==
    /\ (IsSamsungQuality /\ HasRatios(call.arg)) =>
           \A other \in SamsungItems :
               ( /\ HasRatios(other)
                 /\ ItemRatio(other, "rem") = ItemRatio(call.arg, "rem")
                 /\ ItemRatio(other, "light") = ItemRatio(call.arg, "light")
                 /\ ItemRatio(other, "awake") = ItemRatio(call.arg, "awake")
                 /\ JsLeq(ItemRatio(other, "deep"), ItemRatio(call.arg, "deep")) )
               => JsLeq(Samsung_calculateSleepQuality(other), call.ret)
    /\ (IsWearableQuality /\ SumDurations(call.arg) > 0) =>
           \A other \in ComparedPhases :
               ( /\ SumDurations(other) > 0
                 /\ ListRatio(other, "REM") = ListRatio(call.arg, "REM")
                 /\ ListRatio(other, "Light") = ListRatio(call.arg, "Light")
                 /\ JsLeq(ListRatio(other, "Deep"), ListRatio(call.arg, "Deep")) )
               => JsLeq(Wearable_calculateSleepQuality(other), call.ret)

\* a scored item with a strictly larger deep ratio than another item of equal REM,
\* Light and Awake ratios, and a strictly higher score
C5_Witness ==
    /\ IsSamsungQuality
    /\ HasRatios(call.arg)
    /\ \E other \in SamsungItems :
           /\ HasRatios(other)
           /\ ItemRatio(other, "rem") = ItemRatio(call.arg, "rem")
           /\ ItemRatio(other, "light") = ItemRatio(call.arg, "light")
           /\ ItemRatio(other, "awake") = ItemRatio(call.arg, "awake")
           /\ JsLess(ItemRatio(other, "deep"), ItemRatio(call.arg, "deep"))
           /\ JsLess(Samsung_calculateSleepQuality(other), call.ret)

----------------------------------------------------------------------------
(* Properties of the phase distribution *)

IsPhaseDistribution == call.fn = "DataAnalysis.calculatePhaseDistribution"
IsPeriodStats == call.fn = "DataComparison.calculatePeriodStats"

\* total / sum x 100 to the one decimal the components show
ShownPercentage(phases, type) ==
    ToFixed1(Rat(100 * SumDurations(FilterType(phases, type)), SumDurations(phases)))

PercentagesOf(phases, deep, rem, light) ==
    IF SumDurations(phases) = 0
    THEN deep = Num(0) /\ rem = Num(0) /\ light = Num(0)
    ELSE /\ deep = ShownPercentage(phases, "Deep")
         /\ rem = ShownPercentage(phases, "REM")
         /\ light = ShownPercentage(phases, "Light")

\* the sessions of the period calculatePeriodStats was asked about
InPeriod(a) == SelectSeq(a.sleepData, LAMBDA d : d.date >= a.today - a.days)

\* C4: for a non-empty set of sessions whose phases have total duration zero the
\* Deep, REM and Light percentages are all 0; for a positive total each is the
\* type's total / the sum of all totals x 100 (to the decimal shown).
C4_PhasePercentages ==
    /\ (IsPhaseDistribution /\ call.arg # <<>>) =>
           PercentagesOf(AllPhases(call.arg), call.ret.deep, call.ret.rem, call.ret.light)
    /\ (IsPeriodStats /\ InPeriod(call.arg) # <<>>) =>
           PercentagesOf(AllPhases(InPeriod(call.arg)),
                         call.ret.deepSleep, call.ret.remSleep, call.ret.lightSleep)

----------------------------------------------------------------------------
(* Properties of session assembly in WearableService *)

MsPerMinute == 60000

\* two phases overlap by timestamp range (startTime in ms, duration in minutes)
Overlap(p, q) ==
    /\ p.startTime < q.startTime + q.duration * MsPerMinute
    /\ q.startTime < p.startTime + p.duration * MsPerMinute

HasOverlap(phases) ==
    \E i, j \in DOMAIN phases : i < j /\ Overlap(phases[i], phases[j])

\* C6: an empty phase list (a zero-length payload) gives no session: nothing is
\* appended to the stored list, and no error is raised.
C6_EmptyPayloadNoSession ==
    /\ \A i \in DOMAIN sleepData : sleepData[i].phases # <<>>
    /\ sleepValue = <<>> => ~threw

\* C7: input phases that overlap by timestamp range never end up in a session.
C7_OverlapRejected ==
    \A i \in DOMAIN sleepData : ~HasOverlap(sleepData[i].phases)

IsTruncated(value) == Len(value) % RecordSize # 0

\* C8: a buffer whose length is not a multiple of the 9-byte record size is
\* rejected with an error; no record of it is decoded into a session and the
\* stored sessions stay as they were.
C8_TruncatedRecordRejected ==
    [][ \A value \in DevicePayloads, now \in ClockValues :
            (handleSleepData(value, now) /\ IsTruncated(value))
                => (threw' /\ sleepData' = sleepData) ]_vars

\* a truncated buffer with whole records before the cut has been handled
C8_Witness ==
    /\ threw
    /\ IsTruncated(sleepValue)
    /\ Len(sleepValue) > RecordSize

----------------------------------------------------------------------------
(* Properties of the decoder and the normalizer *)

IsProcessSleepData == call.fn = "WearableService.processSleepData"
IsWearableMapPhaseType == call.fn = "WearableService.mapPhaseType"
IsSamsungMapPhaseType == call.fn = "SamsungHealthService.mapPhaseType"

\* the code the record layout uses for a phase type
TypeCode(type) == CASE type = "Deep" -> 0 [] type = "REM" -> 1 [] OTHER -> 2

\* the decoded phases written back in the 9-byte record layout
Reencode(phases) ==
    PayloadOf([i \in 1..Len(phases) |->
                  [code |-> TypeCode(phases[i].type),
                   start |-> phases[i].startTime,
                   duration |-> phases[i].duration]])

\* C9 as stated: decoding a valid buffer and re-encoding it reproduces the bytes.
C9_RoundTrip ==
    (IsProcessSleepData /\ ~IsTruncated(call.arg)) =>
        /\ ~call.ret.threw
        /\ Reencode(call.ret.session.phases) = call.arg

\* the buffer with every phase code of 3 or more replaced by 2
CodesCollapsed(value) ==
    [k \in 1..Len(value) |->
        IF (k - 1) % RecordSize = 0 /\ value[k] >= 3 THEN 2 ELSE value[k]]

\* C9, amended: decoding a valid buffer and re-encoding it reproduces every start
\* offset and duration byte, and every phase code 0, 1 or 2; a code of 3 or more
\* comes back as 2 (Light).
C9_RoundTripUpToLight ==
    (IsProcessSleepData /\ ~IsTruncated(call.arg)) =>
        /\ ~call.ret.threw
        /\ Reencode(call.ret.session.phases) = CodesCollapsed(call.arg)

\* a buffer of two records, one with a code below 3 and one above, was decoded
C9_Witness ==
    /\ IsProcessSleepData
    /\ Len(call.arg) = 2 * RecordSize
    /\ call.arg[1] = 1
    /\ call.arg[1 + RecordSize] = 255
    /\ GetUint32(call.arg, 1) > 16777216
    /\ Reencode(call.ret.session.phases) # call.arg
    /\ Reencode(call.ret.session.phases) = CodesCollapsed(call.arg)

\* str is word in any mix of upper and lower case
IsWord(str, lower, upper) ==
    /\ Len(str) = Len(lower)
    /\ \A i \in 1..Len(lower) : str[i] \in {lower[i], upper[i]}

\* C10: a phase code outside the source's mapping table becomes Light: a BLE code
\* other than 0 and 1, a Samsung type string other than 'deep' and 'rem' in any case.
C10_UnknownCodeIsLight ==
    /\ (IsWearableMapPhaseType /\ call.arg \notin {0, 1}) => call.ret = "Light"
    /\ ( /\ IsSamsungMapPhaseType
         /\ ~IsWord(call.arg, <<"d", "e", "e", "p">>, <<"D", "E", "E", "P">>)
         /\ ~IsWord(call.arg, <<"r", "e", "m">>, <<"R", "E", "M">>) )
           => call.ret = "Light"

\* a BLE code that no case of the switch names was mapped
C10_Witness ==
    /\ IsWearableMapPhaseType
    /\ call.arg = 255
    /\ call.ret = "Light"

----------------------------------------------------------------------------
(* Properties of the vendor decoder *)

IsGetSleepData == call.fn = "SamsungHealthService.getSleepData"
IsGetHeartRateData == call.fn = "SamsungHealthService.getHeartRateData"
IsGetMotionData == call.fn = "SamsungHealthService.getMotionData"

\* the fetch was authorized and the bridge answered with an array
Answered == ~call.ret.threw /\ ~call.arg.threw

\* a sleep record with its required fields
WellFormed(item) ==
    /\ item.startDate # Undefined
    /\ item.endDate # Undefined
    /\ item.phases.kind = "array"

\* C11: when a sleep response holds several records and one of them lacks
\* startDate, endDate or phases, the well-formed records are still decoded and
\* returned.
C11_PartialBatchSuccess ==
    (IsGetSleepData /\ Answered) =>
        \A i \in DOMAIN call.arg.list :
            WellFormed(call.arg.list[i]) =>
                \E j \in DOMAIN call.ret.list :
                    call.ret.list[j] = MapSleepItem(call.arg.list[i])

\* the value handed on for an optional field: the default only when it is missing
PassedOrDefault(v, default) == IF v = Undefined THEN default ELSE v

\* C12: a missing confidence becomes 0.95 and a missing acceleration axis becomes
\* 0; every value that is present, a confidence of 0 included, is passed through
\* unchanged.
C12_OptionalFieldDefaults ==
    /\ (IsGetHeartRateData /\ Answered) =>
           \A i \in DOMAIN call.arg.list :
               /\ call.ret.list[i].value = call.arg.list[i].value
               /\ call.ret.list[i].confidence =
                      PassedOrDefault(call.arg.list[i].confidence, Rat(95, 100))
    /\ (IsGetMotionData /\ Answered) =>
           \A i \in DOMAIN call.arg.list :
               /\ call.ret.list[i].steps = call.arg.list[i].steps
               /\ call.ret.list[i].distance = call.arg.list[i].distance
               /\ \A axis \in {"x", "y", "z"} :
                      call.ret.list[i][axis] =
                          PassedOrDefault(Axis(call.arg.list[i], axis), Num(0))

----------------------------------------------------------------------------
(* Properties of the assembled session *)

\* the sessions a consumer holds: those stored by the wearable service and those
\* returned by an answered Samsung fetch
ReturnedSessions == IF IsGetSleepData /\ Answered THEN call.ret.list ELSE <<>>

ProducedSessions == sleepData \o ReturnedSessions

\* C13: the duration of every assembled session, from either source, is the sum
\* of the durations of its phases; gaps between phases are not counted.
C13_DurationIsPhaseSum ==
    /\ \A i \in DOMAIN sleepData :
           sleepData[i].duration = SumDurations(sleepData[i].phases)
    /\ \A i \in DOMAIN ReturnedSessions :
           ReturnedSessions[i].duration = Num(SumDurations(ReturnedSessions[i].phases))

PhaseStarts(phases) == { phases[i].startTime : i \in DOMAIN phases }

EarliestStart(phases) ==
    CHOOSE t \in PhaseStarts(phases) : \A u \in PhaseStarts(phases) : t <= u

\* the end of the latest-starting phase: its start plus its duration (minutes)
LatestEnd(phases) ==
    LET i == CHOOSE k \in DOMAIN phases :
                 \A u \in PhaseStarts(phases) : u <= phases[k].startTime
    IN  phases[i].startTime + phases[i].duration * MsPerMinute

\* C14: every assembled session with at least one phase has startTime = the
\* earliest phase start and endTime = the latest phase start + that phase's
\* duration.
C14_SessionBounds ==
    \A i \in DOMAIN ProducedSessions :
        LET s == ProducedSessions[i]
        IN  s.phases # <<>> =>
                /\ "startTime" \in DOMAIN s
                /\ s.startTime = Num(EarliestStart(s.phases))
                /\ "endTime" \in DOMAIN s
                /\ s.endTime = Num(LatestEnd(s.phases))

\* phases in chronological order of their starts
Chronological(phases) ==
    \A i, j \in DOMAIN phases : i < j => phases[i].startTime <= phases[j].startTime

\* C18: in every session the decoder produces, whatever the payload, the phases
\* are in chronological order of start time and pairwise non-overlapping.
C18_PhasesOrderedDisjoint ==
    (IsProcessSleepData /\ ~call.ret.threw) =>
        /\ Chronological(call.ret.session.phases)
        /\ ~HasOverlap(call.ret.session.phases)

\* the types and durations of a phase list
TypesAndDurations(phases) ==
    [i \in DOMAIN phases |-> <<phases[i].type, phases[i].duration>>]

\* C20: the quality of a produced session is a function of its normalized phase
\* list alone: sessions with the same phase types and durations carry the same
\* quality, whichever source produced them.
C20_QualityFromPhasesOnly ==
    \A i \in DOMAIN ProducedSessions :
        /\ \A j \in DOMAIN ProducedSessions :
               TypesAndDurations(ProducedSessions[j].phases)
                       = TypesAndDurations(ProducedSessions[i].phases)
                   => ProducedSessions[j].quality = ProducedSessions[i].quality
        /\ ProducedSessions[i].quality
               = Wearable_calculateSleepQuality(ProducedSessions[i].phases)

----------------------------------------------------------------------------
(* Properties of the charts *)

IsRender == call.fn = "DataVisualization"

\* what a session adds to the time in bed: its timeInBed, its duration when
\* it has none
TimeInBedOf(s) == IF s.timeInBed = Undefined THEN s.duration.num ELSE s.timeInBed.num

RECURSIVE TotalInBed(_)
TotalInBed(data) ==
    IF data = <<>> THEN 0 ELSE TimeInBedOf(Head(data)) + TotalInBed(Tail(data))

RECURSIVE TotalAsleep(_)
TotalAsleep(data) ==
    IF data = <<>> THEN 0 ELSE Head(data).duration.num + TotalAsleep(Tail(data))

\* round(100 a / b) for b > 0, halves upwards
RoundedPercent(a, b) == (200 * a + b) \div (2 * b)

\* C15: the efficiency shown for a set of sessions is
\* round(100 x total asleep minutes / total minutes in bed), a session without
\* timeInBed counting its duration as time in bed, and is 0 when the time in
\* bed sums to 0.
C15_EfficiencyIsRoundedRatio ==
    IsRender =>
        LET data == call.arg.sleepData
        IN  call.ret.efficiencyPct =
                IF TotalInBed(data) = 0 THEN Num(0)
                ELSE Num(RoundedPercent(TotalAsleep(data), TotalInBed(data)))

\* the minutes slept in the sessions of data whose day of the week is in days
RECURSIVE MinutesOn(_, _)
MinutesOn(data, days) ==
    IF data = <<>> THEN 0
    ELSE (IF getDay(Head(data).date) \in days THEN Head(data).duration.num ELSE 0)
         + MinutesOn(Tail(data), days)

NightsOn(data, days) == Cardinality({ i \in DOMAIN data : getDay(data[i].date) \in days })

\* hours is the average of the bucket in hours to the two decimals of the
\* chart, 0 for a bucket without sessions
IsBucketAverage(hours, data, days) ==
    LET n == NightsOn(data, days)
        hundredths == hours.num * (100 \div hours.den)
    IN  IF n = 0 THEN hours = Num(0)
        ELSE /\ ~hours.nan /\ 100 % hours.den = 0
             /\ 2 * Abs(hundredths * 60 * n - 100 * MinutesOn(data, days)) <= 60 * n

NightsOfDay(data, midnight) ==
    { i \in DOMAIN data : data[i].date \div MinutesPerDay = midnight \div MinutesPerDay }

First(S) == CHOOSE i \in S : \A j \in S : i <= j

\* C17: the awakenings shown for a day are the count its session reports, and
\* 0 when the session reports none or the day has no session; awake phases and
\* gaps between phases never add to it.
C17_AwakeningsPassedThrough ==
    IsRender =>
        \A i \in 1..5 :
            LET shown == call.ret.timesWokenData[i]
                nights == NightsOfDay(call.arg.sleepData, shown.date)
            IN  /\ shown.date = (call.arg.today \div MinutesPerDay - (5 - i)) * MinutesPerDay
                /\ shown.awakenings =
                       IF nights = {} THEN Num(0)
                       ELSE LET s == call.arg.sleepData[First(nights)]
                            IN  IF s.awakenings = Undefined THEN Num(0) ELSE s.awakenings

\* one night of the last five days reports 3 awakenings and shows 3, another
\* has awake phases and a gap, reports nothing and shows 0
C17_Witness ==
    /\ IsRender
    /\ \E i, j \in 1..5 :
           LET a == NightsOfDay(call.arg.sleepData, call.ret.timesWokenData[i].date)
               b == NightsOfDay(call.arg.sleepData, call.ret.timesWokenData[j].date)
           IN  /\ a # {} /\ b # {}
               /\ call.arg.sleepData[First(a)].awakenings = Num(3)
               /\ call.ret.timesWokenData[i].awakenings = Num(3)
               /\ call.arg.sleepData[First(b)].awakenings = Undefined
               /\ FilterType(call.arg.sleepData[First(b)].phases, "Awake") # <<>>
               /\ call.ret.timesWokenData[j].awakenings = Num(0)

\* C19: every rendered session has duration <= timeInBed and a sum of phase
\* durations <= timeInBed, and the efficiency shown never exceeds 100.
C19_EfficiencyAtMost100 ==
    IsRender =>
        /\ \A i \in DOMAIN call.arg.sleepData :
               LET s == call.arg.sleepData[i]
               IN  /\ s.duration.num <= TimeInBedOf(s)
                   /\ SumDurations(s.phases) <= TimeInBedOf(s)
        /\ call.ret.efficiencyPct.num <= 100

----------------------------------------------------------------------------
(* Properties of the service under notifications *)

LastOf(list) == list[Len(list)]

\* C21: decoding the same payload twice, at different times and in different
\* states of the service, gives sessions equal in every field.
C21_SameInputSameResult ==
    [][(/\ Len(sleepData) > 0
        /\ ~threw
        /\ sleepValue' = sleepValue
        /\ Len(sleepData') = Len(sleepData) + 1)
            => LastOf(sleepData') = LastOf(sleepData)]_vars

\* the step is the sleep listener running
SleepHandled == sleepValue' # sleepValue \/ Len(sleepData') > Len(sleepData)

\* the step is the heart-rate (motion) listener running
HeartRateHandled == Len(notified'.heartRate) > Len(notified.heartRate)
MotionHandled == Len(notified'.motion) > Len(notified.motion)

\* list after the listener got value: one sample more, the first byte of value,
\* nothing more when value has no byte
WithSample(list, value) == IF Len(value) > 0 THEN Append(list, value[1]) ELSE list

C23_OneSamplePerNotification ==
    connected =>
        /\ Len(heartRateData) = Len(notified.heartRate)
        /\ Len(motionData) = Len(notified.motion)
        /\ \A i \in 1..Len(heartRateData) :
               Len(notified.heartRate[i]) > 0 /\ heartRateData[i] = notified.heartRate[i][1]
        /\ \A i \in 1..Len(motionData) :
               Len(notified.motion[i]) > 0 /\ motionData[i] = notified.motion[i][1]

\* C24: the contents of a session list returned by getSleepData() never change
\* afterwards, whatever the service does.
C24_ReturnedListImmutable == consumer.list = consumer.seen

\* C27: between the return of disconnect() and the next connectDevice the
\* service holds no data: getSleepData, getHeartRateData and getMotionData
\* return empty lists.
C27_NoDataAfterDisconnect ==
    released =>
        /\ sleepData = <<>>
        /\ getHeartRateData(0, "Unknown Device") = <<>>
        /\ getMotionData(0, "Unknown Device") = <<>>

----------------------------------------------------------------------------
(* Properties of the authorization of SamsungHealthService *)

IsFetch(c) ==
    c.fn \in {"SamsungHealthService.getSleepData", "SamsungHealthService.getHeartRateData",
              "SamsungHealthService.getMotionData"}

\* C25: the bridge receives a data read only in a state where isAuthorized is
\* true; isAuthorized implies isInitialized in every state; a fetch made while
\* not authorized throws and reads nothing from the bridge.
C25_ReadsOnlyWhenAuthorized ==
    [][/\ isAuthorized' => isInitialized'
       /\ bridgeReads' # bridgeReads => isAuthorized
       /\ (call' # call /\ IsFetch(call') /\ ~isAuthorized) =>
              /\ call'.ret.threw
              /\ fetchRefused'
              /\ bridgeReads' = bridgeReads]_vars

\* a fetch was made while not authorized: it threw and the bridge got no read
C25_Witness ==
    /\ IsFetch(call)
    /\ fetchRefused
    /\ call.ret.threw
    /\ bridgeReads = 0
    /\ isInitialized /\ ~isAuthorized

\* C26: isAuthorized reflects the last permission result: once requestPermission
\* or checkPermissions has returned false, isAuthorized is false, and a fetch made
\* then is refused.
C26_AuthorizedIsLastResult ==
    [][/\ permissionResult' = "false" => ~isAuthorized'
       /\ (call' # call /\ IsFetch(call') /\ permissionResult = "false") => fetchRefused']_vars

----------------------------------------------------------------------------
(* Properties of DataSync and DeviceConnection *)

\* C28: DataSync shows its success message only if each of the three uploads
\* of the last handleSync succeeded, and after a handleSync with a failed
\* upload success is false and an error is shown
C28_SuccessOnlyIfAllUploaded ==
    /\ dataSync.success =>
           /\ Len(dataSync.responses) = 3
           /\ \A i \in DOMAIN dataSync.responses : dataSync.responses[i].success
    /\ (/\ dataSync.running = "none"
        /\ \E i \in DOMAIN dataSync.responses : ~dataSync.responses[i].success) =>
           /\ ~dataSync.success
           /\ dataSync.error # NoError

\* C29: whenever DeviceConnection's isSyncing is true it becomes false again,
\* whatever the awaited service calls settle to
C29_SyncingEnds == deviceConnection.isSyncing ~> ~deviceConnection.isSyncing

\* a sync whose fetches threw has ended and isSyncing is false again
C29_Witness ==
    /\ deviceConnection.error = "Failed to sync data from Samsung Health. Please try again."
    /\ deviceConnection.running = "none"
    /\ ~deviceConnection.isSyncing

----------------------------------------------------------------------------
(* Properties of AuthContext *)

\* C30: no two stored users have the same email
C30_EmailsUnique ==
    \A i \in DOMAIN users, k \in DOMAIN users : users[i].email = users[k].email => i = k

====
